---- MODULE Spec2Model ----
(***************************************************************************)
(* Model of the rule DSL compiler (crates/game_of_life_sim/src/dsl.rs), of *)
(* the shader import preprocessor (src/shaders.rs), of the Time clock      *)
(* (crates/game_of_life_sim/src/gameloop.rs), of the event loop of         *)
(* diamond::run (crates/diamond/src/lib.rs) and of the input and update    *)
(* handlers of GameOfLifeApp (crates/game_of_life_sim/src/lib.rs).         *)
(*                                                                         *)
(* Text is a TLA+ string; Len, SubSeq and \o act on it character by        *)
(* character.  A u32 is a pair of 16-bit limbs [hi, lo] standing for       *)
(* hi * 2^16 + lo, so that the whole range 0..2^32-1 is representable.     *)
(***************************************************************************)
EXTENDS Integers, Sequences, FiniteSets, TLC

VARIABLES
    expr,           \* ExprSpec: the Expr tree built by the exprs::* constructors
    expr_text,      \* ExprSpec: the String returned by Expr::to_shader
    stmt,           \* StmtSpec: the Statement tree built by statements::*
    stmt_text,      \* StmtSpec: the String returned by Statement::to_shader
    ruleset,        \* StmtSpec: stmt is the tree rulesets::conways_game_of_life returned
    is_alive,       \* StmtSpec: the cell's state the compiled rule reads (0 or 1)
    num_neighbors,  \* StmtSpec: the neighbour count the compiled rule reads
    result,         \* StmtSpec: the output variable the compiled rule assigns
    files,          \* LoadSpec: the asset tree, path |-> text of each readable file
    env_debug,      \* LoadSpec: DEBUG_SHADER is set in the environment
    fs_writable,    \* LoadSpec: std::fs::write into the asset tree succeeds
    proc,           \* LoadSpec: "running", "exited" (process::exit) or "panicked"
    load_call,      \* LoadSpec: the last call made, <<function, shader_path>>
    load_result,    \* LoadSpec: what the last call returned: "none", "Ok" or "Err"
    modules,        \* LoadSpec: the (label, source) pairs given to create_shader_module
    reads,          \* LoadSpec: the paths given to read_to_string by the last call
    shader_contents,\* LoadSpec: what load_shader_inner returned to the last call
    walk_self,      \* WalkSpec: the tree to_shader was called on (&self)
    walk_stack,     \* WalkSpec: the active to_shader calls, outermost first
    walk_visited,   \* WalkSpec: the nodes to_shader was called on, in call order
    walk_depth,     \* WalkSpec: the largest number of active calls so far
    walk_out,       \* WalkSpec: the String the outermost call returned
    walk_first,     \* WalkSpec: the String the first compilation returned
    walk_runs,      \* WalkSpec: the number of compilations completed
    time,           \* TimeSpec: the fields of the Time struct
    clock,          \* TimeSpec: what Instant::now() returns
    control_flow,   \* RunSpec: winit's ControlFlow after the last event, "poll" or "exit"
    request_window_close, \* RunSpec: the local of run the event closure captures
    ctx,            \* RunSpec: DiamondContext: size and config (width, height)
    surface,        \* RunSpec: what surface.configure was last given, and how often
    window_redraw,  \* RunSpec: window.request_redraw() is pending
    event,          \* RunSpec: the event the closure was last called with
    calls,          \* RunSpec: what the last step called, in call order
    stage_count,    \* RunSpec: how often each DiamondApp callback has been called
    delivered,      \* RunSpec: the number of events the closure has been called with
    scan_shader,    \* ScanSpec: the text given to get_imports_from_str
    scan_imports,   \* ScanSpec: the ShaderImports it returned (<<>> before the call)
    app,            \* AppSpec: the fields of GameOfLifeApp
    instant_now,    \* AppSpec: what Instant::now() returns, in units of 10 ms
    inner_size,     \* AppSpec: window().inner_size() of the primary window
    submitted,      \* AppSpec: the compute passes of the last encoder submitted
    steps,          \* AppSpec: the bind groups of the Update passes dispatched so far
    left_button,    \* AppSpec: the state of the last left MouseInput event, or "none"
    pc              \* position of the running specification

exprVars == <<expr, expr_text>>
stmtVars == <<stmt, stmt_text, ruleset, is_alive, num_neighbors, result>>
loadVars ==
    <<files, env_debug, fs_writable, proc, load_call, load_result, modules, reads,
      shader_contents>>
walkVars ==
    <<walk_self, walk_stack, walk_visited, walk_depth, walk_out, walk_first, walk_runs>>
timeVars == <<time, clock>>
runVars ==
    <<control_flow, request_window_close, ctx, surface, window_redraw, event, calls,
      stage_count, delivered>>
scanVars == <<scan_shader, scan_imports>>
appVars == <<app, instant_now, inner_size, submitted, steps, left_button>>
vars ==
    <<exprVars, stmtVars, loadVars, walkVars, timeVars, runVars, scanVars, appVars, pc>>

\* what the actions of each specification leave alone
exprOthers == <<stmtVars, loadVars, walkVars, timeVars, runVars, scanVars, appVars>>
stmtOthers == <<exprVars, loadVars, walkVars, timeVars, runVars, scanVars, appVars>>
loadOthers == <<exprVars, walkVars, timeVars, runVars, scanVars, appVars>>
walkOthers == <<exprVars, loadVars, timeVars, runVars, scanVars, appVars>>
timeOthers == <<exprVars, stmtVars, loadVars, walkVars, runVars, scanVars, appVars>>
runOthers == <<exprVars, stmtVars, loadVars, walkVars, timeVars, scanVars, appVars>>
scanOthers == <<exprVars, stmtVars, loadVars, walkVars, timeVars, runVars, appVars>>
appOthers == <<exprVars, stmtVars, loadVars, walkVars, timeVars, runVars, scanVars>>

-----------------------------------------------------------------------------
(* Characters and text helpers                                             *)

Char(s, i) == SubSeq(s, i, i)

Digits == "0123456789"

DigitChar(d) == Char(Digits, d + 1)

IsDigit(c) == \E d \in 0..9 : DigitChar(d) = c

DigitVal(c) == CHOOSE d \in 0..9 : DigitChar(d) = c

\* s starts with prefix p
StartsWith(s, p) == Len(s) >= Len(p) /\ SubSeq(s, 1, Len(p)) = p

\* s ends with suffix p
EndsWith(s, p) == Len(s) >= Len(p) /\ SubSeq(s, Len(s) - Len(p) + 1, Len(s)) = p

\* number of (possibly overlapping) positions of s at which p occurs
Occurrences(s, p) ==
    Cardinality({i \in 1..(Len(s) - Len(p) + 1) : SubSeq(s, i, i + Len(p) - 1) = p})

Contains(s, p) == \E i \in 1..(Len(s) - Len(p) + 1) : SubSeq(s, i, i + Len(p) - 1) = p

-----------------------------------------------------------------------------
(* u32 values                                                              *)

Limb == 65536

U32v(n) == [hi |-> n \div Limb, lo |-> n % Limb]

U32_MAX == [hi |-> Limb - 1, lo |-> Limb - 1]

IsU32(v) == v.hi \in 0..(Limb - 1) /\ v.lo \in 0..(Limb - 1)

\* v \div 10 and v % 10 by long division over the two limbs
DivTen(v) ==
    LET t == (v.hi % 10) * Limb + v.lo
    IN  [hi |-> v.hi \div 10, lo |-> t \div 10]

ModTen(v) == ((v.hi % 10) * Limb + v.lo) % 10

\* the decimal digits of v, most significant first
RECURSIVE fmt_u32_dec(_)
fmt_u32_dec(v) ==
    IF v.hi = 0 /\ v.lo < 10
    THEN DigitChar(v.lo)
    ELSE fmt_u32_dec(DivTen(v)) \o DigitChar(ModTen(v))

\* a mutant of fmt_u32: the value is printed as a signed 32-bit integer
fmt_u32_signed(v) ==
    IF v.hi >= Limb \div 2
    THEN LET lo == (Limb - v.lo) % Limb
             hi == (Limb - 1 - v.hi) + (IF v.lo = 0 THEN 1 ELSE 0)
         IN  "-" \o fmt_u32_dec([hi |-> hi, lo |-> lo])
    ELSE fmt_u32_dec(v)

\* format!("{}", val) of a u32: its decimal digits, most significant first
fmt_u32(v) == fmt_u32_dec(v)

-----------------------------------------------------------------------------
(* enum Expr and the exprs::* constructors                                 *)

const_u32(value) == [tag |-> "U32", val |-> value]

alive == [tag |-> "Alive"]

neighbors == [tag |-> "Neighbors"]

gt(lhs, rhs) == [tag |-> "Gt", lhs |-> lhs, rhs |-> rhs]

gte(lhs, rhs) == [tag |-> "Gte", lhs |-> lhs, rhs |-> rhs]

lt(lhs, rhs) == [tag |-> "Lt", lhs |-> lhs, rhs |-> rhs]

lte(lhs, rhs) == [tag |-> "Lte", lhs |-> lhs, rhs |-> rhs]

and(lhs, rhs) == [tag |-> "And", lhs |-> lhs, rhs |-> rhs]

or(lhs, rhs) == [tag |-> "Or", lhs |-> lhs, rhs |-> rhs]

equal(lhs, rhs) == [tag |-> "Equal", lhs |-> lhs, rhs |-> rhs]

LeafTags == {"U32", "Alive", "Neighbors"}

CmpTags == {"Gt", "Gte", "Lt", "Lte", "Equal"}

BitTags == {"And", "Or"}

IsLeaf(e) == e.tag \in LeafTags

RECURSIVE ExprDepth(_)
ExprDepth(e) ==
    IF IsLeaf(e) THEN 0
    ELSE 1 + (IF ExprDepth(e.lhs) >= ExprDepth(e.rhs)
              THEN ExprDepth(e.lhs) ELSE ExprDepth(e.rhs))

RECURSIVE ExprNodes(_)
ExprNodes(e) ==
    IF IsLeaf(e) THEN 1 ELSE 1 + ExprNodes(e.lhs) + ExprNodes(e.rhs)

-----------------------------------------------------------------------------
(* Expr::to_shader                                                         *)

\* format!("{}u", val)
FmtU32(val) == fmt_u32(val) \o "u"

FmtAlive == "is_alive"

FmtNeighbors == "num_neighbors"

\* format!("u32(({}) <op> ({}))", lhs, rhs)
FmtGt(l, r) == "u32((" \o l \o ") > (" \o r \o "))"

\* a mutant of FmtGte: the comparison result is not cast
FmtGte_uncast(l, r) == "((" \o l \o ") >= (" \o r \o "))"

FmtGte(l, r) == "u32((" \o l \o ") >= (" \o r \o "))"

FmtLt(l, r) == "u32((" \o l \o ") < (" \o r \o "))"

FmtLte(l, r) == "u32((" \o l \o ") <= (" \o r \o "))"

FmtEqual(l, r) == "u32((" \o l \o ") == (" \o r \o "))"

\* a mutant of FmtAnd: the logical operator
FmtAnd_logical(l, r) == "((" \o l \o ") && (" \o r \o "))"

\* format!("(({}) & ({}))", lhs, rhs)
FmtAnd(l, r) == "((" \o l \o ") & (" \o r \o "))"

\* a mutant of FmtOr: the operands are not parenthesized
FmtOr_flat(l, r) == l \o " | " \o r

\* format!("(({}) | ({}))", lhs, rhs)
FmtOr(l, r) == "((" \o l \o ") | (" \o r \o "))"

RECURSIVE Expr_to_shader(_)
Expr_to_shader(self) ==
    CASE self.tag = "U32"       -> FmtU32(self.val)
      [] self.tag = "Alive"     -> FmtAlive
      [] self.tag = "Neighbors" -> FmtNeighbors
      [] self.tag = "Gt"    -> FmtGt(Expr_to_shader(self.lhs), Expr_to_shader(self.rhs))
      [] self.tag = "Gte"   -> FmtGte(Expr_to_shader(self.lhs), Expr_to_shader(self.rhs))
      [] self.tag = "Lt"    -> FmtLt(Expr_to_shader(self.lhs), Expr_to_shader(self.rhs))
      [] self.tag = "Lte"   -> FmtLte(Expr_to_shader(self.lhs), Expr_to_shader(self.rhs))
      [] self.tag = "And"   -> FmtAnd(Expr_to_shader(self.lhs), Expr_to_shader(self.rhs))
      [] self.tag = "Or"    -> FmtOr(Expr_to_shader(self.lhs), Expr_to_shader(self.rhs))
      [] self.tag = "Equal" -> FmtEqual(Expr_to_shader(self.lhs), Expr_to_shader(self.rhs))

-----------------------------------------------------------------------------
(* enum Statement, the statements::* constructors and the ruleset          *)

void == [tag |-> "Void"]

set_result(e) == [tag |-> "SetResult", expr |-> e]

if_then_else(condition, if_true_then, if_false_then) ==
    [tag |-> "IfThenElse", condition |-> condition,
     if_true_then |-> if_true_then, if_false_then |-> if_false_then]

\* a mutant of conways_game_of_life: a live cell survives on 1 or 3
conways_game_of_life_1or3 ==
    if_then_else(
        alive,
        set_result(or(
            equal(neighbors, const_u32(U32v(1))),
            equal(neighbors, const_u32(U32v(3))))),
        set_result(equal(neighbors, const_u32(U32v(3)))))

conways_game_of_life ==
    if_then_else(
        alive,
        set_result(or(
            equal(neighbors, const_u32(U32v(2))),
            equal(neighbors, const_u32(U32v(3))))),
        set_result(equal(neighbors, const_u32(U32v(3)))))

RECURSIVE StmtDepth(_)
StmtDepth(s) ==
    IF s.tag # "IfThenElse" THEN 0
    ELSE 1 + (IF StmtDepth(s.if_true_then) >= StmtDepth(s.if_false_then)
              THEN StmtDepth(s.if_true_then) ELSE StmtDepth(s.if_false_then))

\* the statements nested in s, s included
RECURSIVE SubStmts(_)
SubStmts(s) ==
    IF s.tag # "IfThenElse" THEN {s}
    ELSE {s} \cup SubStmts(s.if_true_then) \cup SubStmts(s.if_false_then)

RECURSIVE CountIf(_)
CountIf(s) ==
    IF s.tag # "IfThenElse" THEN 0
    ELSE 1 + CountIf(s.if_true_then) + CountIf(s.if_false_then)

-----------------------------------------------------------------------------
(* Statement::to_shader                                                    *)

\* String::new()
FmtVoid == ""

\* a mutant of FmtSetResult: the statement is not terminated
FmtSetResult_open(e) == "result = " \o e

\* format!("result = {};", expr)
FmtSetResult(e) == "result = " \o e \o ";"

\* a mutant of FmtIfThenElse: an empty else branch is left out
FmtIfThenElse_elided(c, t, f) ==
    IF f = ""
    THEN "if (" \o c \o ") { " \o t \o " }"
    ELSE "if (" \o c \o ") { " \o t \o " } else { " \o f \o " }"

\* format!("if ({}) {{ {} }} else {{ {} }}", condition, if_true_then, if_false_then)
FmtIfThenElse(c, t, f) == "if (" \o c \o ") { " \o t \o " } else { " \o f \o " }"

RECURSIVE Statement_to_shader(_)
Statement_to_shader(self) ==
    CASE self.tag = "Void" -> FmtVoid
      [] self.tag = "SetResult" -> FmtSetResult(Expr_to_shader(self.expr))
      [] self.tag = "IfThenElse" ->
            FmtIfThenElse(Expr_to_shader(self.condition),
                          Statement_to_shader(self.if_true_then),
                          Statement_to_shader(self.if_false_then))

-----------------------------------------------------------------------------
(* What the compiled text computes: the operators to_shader emits, over    *)
(* u32 values                                                              *)

U32Less(a, b) == a.hi < b.hi \/ (a.hi = b.hi /\ a.lo < b.lo)

\* u32(b): a comparison result as 0 or 1
U32OfBool(b) == IF b THEN U32v(1) ELSE U32v(0)

\* x & y (and = TRUE) or x | y (and = FALSE) over the low k bits
RECURSIVE BitOp(_, _, _, _)
BitOp(x, y, k, isAnd) ==
    IF k = 0 THEN 0
    ELSE LET bx == x % 2
             by == y % 2
             b == IF isAnd THEN (IF bx = 1 /\ by = 1 THEN 1 ELSE 0)
                  ELSE (IF bx = 1 \/ by = 1 THEN 1 ELSE 0)
         IN  b + 2 * BitOp(x \div 2, y \div 2, k - 1, isAnd)

U32And(a, b) == [hi |-> BitOp(a.hi, b.hi, 16, TRUE), lo |-> BitOp(a.lo, b.lo, 16, TRUE)]

U32Or(a, b) == [hi |-> BitOp(a.hi, b.hi, 16, FALSE), lo |-> BitOp(a.lo, b.lo, 16, FALSE)]

RECURSIVE Eval(_, _, _)
Eval(e, a, n) ==
    CASE e.tag = "U32"       -> e.val
      [] e.tag = "Alive"     -> a
      [] e.tag = "Neighbors" -> n
      [] e.tag = "Gt"    -> U32OfBool(U32Less(Eval(e.rhs, a, n), Eval(e.lhs, a, n)))
      [] e.tag = "Gte"   -> U32OfBool(~U32Less(Eval(e.lhs, a, n), Eval(e.rhs, a, n)))
      [] e.tag = "Lt"    -> U32OfBool(U32Less(Eval(e.lhs, a, n), Eval(e.rhs, a, n)))
      [] e.tag = "Lte"   -> U32OfBool(~U32Less(Eval(e.rhs, a, n), Eval(e.lhs, a, n)))
      [] e.tag = "And"   -> U32And(Eval(e.lhs, a, n), Eval(e.rhs, a, n))
      [] e.tag = "Or"    -> U32Or(Eval(e.lhs, a, n), Eval(e.rhs, a, n))
      [] e.tag = "Equal" -> U32OfBool(Eval(e.lhs, a, n) = Eval(e.rhs, a, n))

\* the value of result after the statement ran, r being its value before
RECURSIVE Exec(_, _, _, _)
Exec(s, a, n, r) ==
    CASE s.tag = "Void" -> r
      [] s.tag = "SetResult" -> Eval(s.expr, a, n)
      [] s.tag = "IfThenElse" ->
            IF Eval(s.condition, a, n) # U32v(0)
            THEN Exec(s.if_true_then, a, n, r)
            ELSE Exec(s.if_false_then, a, n, r)

-----------------------------------------------------------------------------
(* StmtSpec: a statement is built with the statements::* constructors or   *)
(* taken from rulesets, compiled, and the compiled rule is run on a cell   *)

\* bound on the nesting depth of the statements built
MaxStmtDepth == 2

\* the largest neighbour count of a cell (the 8 cells around it)
MaxNeighbors == 8

StmtSeeds ==
    { void,
      set_result(equal(neighbors, const_u32(U32v(3)))),
      set_result(and(alive, gte(neighbors, const_u32(U32v(2))))) }

Conditions == { alive, lt(neighbors, const_u32(U32v(3))) }

Branches == { void, set_result(const_u32(U32v(1))) }

StmtIdle ==
    /\ stmt = void
    /\ stmt_text = ""
    /\ ruleset = FALSE
    /\ is_alive = U32v(0)
    /\ num_neighbors = U32v(0)
    /\ result = U32v(0)

ExprIdle ==
    /\ expr = alive
    /\ expr_text = ""

WalkIdle ==
    /\ walk_self = void
    /\ walk_stack = <<>>
    /\ walk_visited = <<>>
    /\ walk_depth = 0
    /\ walk_out = ""
    /\ walk_first = ""
    /\ walk_runs = 0

LoadIdle ==
    /\ files = <<>>
    /\ env_debug = FALSE
    /\ fs_writable = FALSE
    /\ proc = "running"
    /\ load_call = <<>>
    /\ load_result = "none"
    /\ modules = <<>>
    /\ reads = <<>>
    /\ shader_contents = ""

\* impl Default for Time, created at instant 0; None is <<>>, Some(i) is <<i>>
Time_default(now) ==
    [paused |-> FALSE, startup |-> now, first_update |-> <<>>, last_update |-> <<>>,
     delta |-> 0, delta_seconds |-> [secs |-> 0, quarters |-> 0],
     delta_seconds_f64 |-> [secs |-> 0, quarters |-> 0]]

TimeIdle ==
    /\ time = Time_default(0)
    /\ clock = 0

\* the DiamondApp callbacks
Stages ==
    {"start", "input", "update", "render", "post_processing", "after_render",
     "end_of_frame", "end"}

RunIdle ==
    /\ control_flow = "poll"
    /\ request_window_close = FALSE
    /\ ctx = [size |-> <<0, 0>>, config |-> <<0, 0>>]
    /\ surface = [config |-> <<0, 0>>, configures |-> 0]
    /\ window_redraw = FALSE
    /\ event = [kind |-> "none"]
    /\ calls = <<>>
    /\ stage_count = [s \in Stages |-> 0]
    /\ delivered = 0

ScanIdle ==
    /\ scan_shader = ""
    /\ scan_imports = <<>>

\* the two textures CanvasData::create makes, by their labels
CanvasData_create ==
    [canvas |-> "Canvas", data_in |-> "Data In",
     draw_bind_group |-> <<"Data In">>,
     init_bind_group |-> <<"Canvas", "Data In">>,
     canvas_bind_group |-> <<"Canvas">>]

\* impl Default for GameOfLifeApp, created at instant now; None is <<>>,
\* Some(v) is <<v>>
GameOfLifeApp_default(now) ==
    [count |-> 0, time |-> now, updated_time |-> now, drawing |-> FALSE,
     cursor_pos |-> <<0, 0>>, prev_cursor_pos |-> <<>>, data |-> <<>>]

AppIdle ==
    /\ app = GameOfLifeApp_default(0)
    /\ instant_now = 0
    /\ inner_size = <<0, 0>>
    /\ submitted = <<>>
    /\ steps = <<>>
    /\ left_button = "none"

StmtInit ==
    /\ stmt \in StmtSeeds
    /\ stmt_text = ""
    /\ ruleset = FALSE
    /\ is_alive = U32v(0)
    /\ num_neighbors = U32v(0)
    /\ result \in {U32v(0), U32v(1)}
    /\ pc = "build"
    /\ ExprIdle
    /\ LoadIdle
    /\ WalkIdle
    /\ TimeIdle
    /\ RunIdle
    /\ ScanIdle
    /\ AppIdle

\* &crate::dsl::rulesets::conways_game_of_life()
Ruleset ==
    /\ pc = "build"
    /\ stmt = void
    /\ stmt' = conways_game_of_life
    /\ ruleset' = TRUE
    /\ UNCHANGED <<stmt_text, is_alive, num_neighbors, result, pc, stmtOthers>>

Build_if_then_else ==
    /\ pc = "build"
    /\ StmtDepth(stmt) < MaxStmtDepth
    /\ \E c \in Conditions, b \in Branches :
          \/ stmt' = if_then_else(c, stmt, b)
          \/ stmt' = if_then_else(c, b, stmt)
    /\ ruleset' = FALSE
    /\ UNCHANGED <<stmt_text, is_alive, num_neighbors, result, pc, stmtOthers>>

\* let shader_rules = dsl.to_shader();
CompileStmt ==
    /\ pc = "build"
    /\ stmt_text' = Statement_to_shader(stmt)
    /\ pc' = "compiled"
    /\ UNCHANGED <<stmt, ruleset, is_alive, num_neighbors, result, stmtOthers>>

\* the compiled rule runs on one cell
RunRule ==
    /\ pc = "compiled"
    /\ \E a \in 0..1, n \in 0..MaxNeighbors :
          /\ is_alive' = U32v(a)
          /\ num_neighbors' = U32v(n)
          /\ result' = Exec(stmt, U32v(a), U32v(n), result)
    /\ pc' = "ran"
    /\ UNCHANGED <<stmt, stmt_text, ruleset, stmtOthers>>

StmtNext ==
    \/ Ruleset
    \/ Build_if_then_else
    \/ CompileStmt
    \/ RunRule

StmtSpec == StmtInit /\ [][StmtNext]_vars


-----------------------------------------------------------------------------
(* ShaderImportProcessor: text scanning                                    *)

\* format!("{}/assets", env!("CARGO_MANIFEST_DIR"))
Root == "assets"

\* \s of the regex crate, as far as the texts here go
IsSpace(c) == c \in {" ", "\t", "\r", "\n"}

\* the first position from i on that holds no whitespace
RECURSIVE SkipSpace(_, _)
SkipSpace(s, i) ==
    IF i <= Len(s) /\ IsSpace(Char(s, i)) THEN SkipSpace(s, i + 1) ELSE i

\* capture group 1 of ^\s*#\s*<keyword>\s+(.+) on one line, "" when the
\* line does not match (a capture is never empty)
Captures(line, keyword) ==
    LET i == SkipSpace(line, 1)
    IN  IF i > Len(line) \/ Char(line, i) # "#" THEN ""
        ELSE LET j == SkipSpace(line, i + 1)
                 k == j + Len(keyword)
             IN  IF k - 1 > Len(line) \/ SubSeq(line, j, k - 1) # keyword THEN ""
                 ELSE LET m == SkipSpace(line, k)
                      IN  IF m = k THEN ""
                          ELSE IF m <= Len(line) THEN SubSeq(line, m, Len(line))
                          \* only whitespace follows: \s+ gives its last character to (.+)
                          ELSE IF m - k >= 2 THEN SubSeq(line, Len(line), Len(line))
                          ELSE ""

\* a mutant of import_custom_path_regex: the regex without its ^ anchor
import_custom_path_regex_unanchored(line) ==
    LET at == {k \in 1..Len(line) :
                  Captures(SubSeq(line, k, Len(line)), "import") # ""}
    IN  IF at = {} THEN ""
        ELSE Captures(SubSeq(line, CHOOSE k \in at : \A m \in at : k <= m, Len(line)),
                      "import")

\* Regex::new(r"^\s*#\s*import\s+(.+)")
import_custom_path_regex(line) == Captures(line, "import")

\* Regex::new(r"^\s*#\s*define_import_path\s+(.+)")
define_import_path_regex(line) == Captures(line, "define_import_path")

\* a line without its "\n", and without the "\r" before that "\n"
StripEnding(piece) ==
    IF EndsWith(piece, "\r") THEN SubSeq(piece, 1, Len(piece) - 1) ELSE piece

\* str::lines(): the text split at "\n" or "\r\n"; the last line need not
\* be terminated (scanning from position i, the line starting at from)
RECURSIVE LinesFrom(_, _, _)
LinesFrom(t, i, from) ==
    LET at == {k \in i..Len(t) : Char(t, k) = "\n"}
    IN  IF at = {}
        THEN (IF from <= Len(t) THEN <<SubSeq(t, from, Len(t))>> ELSE <<>>)
        ELSE LET nl == CHOOSE k \in at : \A m \in at : k <= m
             IN  <<StripEnding(SubSeq(t, from, nl - 1))>> \o LinesFrom(t, nl + 1, nl + 1)

Lines(t) == LinesFrom(t, 1, 1)

\* str::replace(pat, to): every non-overlapping match of pat, from the left
\* (scanning from position i, the text from position from on not yet copied)
RECURSIVE ReplaceFrom(_, _, _, _, _)
ReplaceFrom(t, i, from, pat, to) ==
    IF i + Len(pat) - 1 > Len(t) THEN SubSeq(t, from, Len(t))
    ELSE IF SubSeq(t, i, i + Len(pat) - 1) = pat
         THEN SubSeq(t, from, i - 1) \o to
                  \o ReplaceFrom(t, i + Len(pat), i + Len(pat), pat, to)
         ELSE ReplaceFrom(t, i + 1, from, pat, to)

Replace(t, pat, to) == ReplaceFrom(t, 1, 1, pat, to)

\* ShaderImports::default(); import_path is <<>> for None, <<path>> for Some(path)
ShaderImports_default == [imports |-> <<>>, import_path |-> <<>>]

\* a mutant of ScanLine: an import path, once set, stays
ScanLine_firstpath(shader_imports, line) ==
    IF import_custom_path_regex(line) # ""
    THEN [shader_imports EXCEPT
            !.imports = Append(@, import_custom_path_regex(line))]
    ELSE IF define_import_path_regex(line) # "" /\ shader_imports.import_path = <<>>
    THEN [shader_imports EXCEPT
            !.import_path = <<define_import_path_regex(line)>>]
    ELSE shader_imports

\* the body of the loop of get_imports_from_str, on one line
ScanLine(shader_imports, line) ==
    IF import_custom_path_regex(line) # ""
    THEN [shader_imports EXCEPT
            !.imports = Append(@, import_custom_path_regex(line))]
    ELSE IF define_import_path_regex(line) # ""
    THEN [shader_imports EXCEPT
            !.import_path = <<define_import_path_regex(line)>>]
    ELSE shader_imports

RECURSIVE ScanLines(_, _)
ScanLines(shader_imports, lines) ==
    IF lines = <<>> THEN shader_imports
    ELSE ScanLines(ScanLine(shader_imports, Head(lines)), Tail(lines))

get_imports_from_str(shader) == ScanLines(ShaderImports_default, Lines(shader))

-----------------------------------------------------------------------------
(* ShaderImportProcessor: loading                                          *)

\* std::fs::read_to_string succeeds on the files of the asset tree
Readable(fs, path) == path \in DOMAIN fs

\* a mutant of ImportStep: the directive is replaced under other spacings too
ImportStep_spaced(acc, import, import_path, fs) ==
    LET dir == IF import_path = <<>> THEN Root ELSE Root \o "/" \o import_path[1]
        file == dir \o "/" \o import
    IN  IF acc.kind # "Ok" THEN acc
        ELSE IF ~Readable(fs, file)
        THEN [kind |-> "Exit", text |-> "", reads |-> Append(acc.reads, file)]
        ELSE [kind |-> "Ok",
              text |-> Replace(Replace(Replace(acc.text, "#import " \o import, fs[file]),
                                       "# import " \o import, fs[file]),
                               "#import  " \o import, fs[file]),
              reads |-> Append(acc.reads, file)]

\* a mutant of ImportStep: every import is read from the asset root
ImportStep_rootdir(acc, import, import_path, fs) ==
    LET file == Root \o "/" \o import
    IN  IF acc.kind # "Ok" THEN acc
        ELSE IF ~Readable(fs, file)
        THEN [kind |-> "Exit", text |-> "", reads |-> Append(acc.reads, file)]
        ELSE [kind |-> "Ok",
              text |-> Replace(acc.text, "#import " \o import, fs[file]),
              reads |-> Append(acc.reads, file)]

\* a mutant of ImportStep: the first match of the directive alone is replaced
ImportStep_replacen(acc, import, import_path, fs) ==
    LET dir == IF import_path = <<>> THEN Root ELSE Root \o "/" \o import_path[1]
        file == dir \o "/" \o import
        pat == "#import " \o import
        at == {i \in 1..(Len(acc.text) - Len(pat) + 1) :
                  SubSeq(acc.text, i, i + Len(pat) - 1) = pat}
        first == CHOOSE i \in at : \A j \in at : i <= j
    IN  IF acc.kind # "Ok" THEN acc
        ELSE IF ~Readable(fs, file)
        THEN [kind |-> "Exit", text |-> "", reads |-> Append(acc.reads, file)]
        ELSE [kind |-> "Ok",
              text |-> IF at = {} THEN acc.text
                       ELSE SubSeq(acc.text, 1, first - 1) \o fs[file]
                               \o SubSeq(acc.text, first + Len(pat), Len(acc.text)),
              reads |-> Append(acc.reads, file)]

\* a mutant of ImportStep: an unreadable import is replaced by nothing
ImportStep_silent(acc, import, import_path, fs) ==
    LET dir == IF import_path = <<>> THEN Root ELSE Root \o "/" \o import_path[1]
        file == dir \o "/" \o import
        import_contents == IF Readable(fs, file) THEN fs[file] ELSE ""
    IN  IF acc.kind # "Ok" THEN acc
        ELSE [kind |-> "Ok",
              text |-> Replace(acc.text, "#import " \o import, import_contents),
              reads |-> Append(acc.reads, file)]

\* a mutant of ImportStep: the imports the imported file declares itself
\* are expanded in its text before it is spliced in
RECURSIVE ExpandOwn(_, _, _)
ExpandOwn(text, imports, fs) ==
    IF imports = <<>> THEN text
    ELSE LET file == Root \o "/" \o Head(imports)
         IN  ExpandOwn(IF Readable(fs, file)
                       THEN Replace(text, "#import " \o Head(imports), fs[file])
                       ELSE text,
                       Tail(imports), fs)

ImportStep_nested(acc, import, import_path, fs) ==
    LET dir == IF import_path = <<>> THEN Root ELSE Root \o "/" \o import_path[1]
        file == dir \o "/" \o import
    IN  IF acc.kind # "Ok" THEN acc
        ELSE IF ~Readable(fs, file)
        THEN [kind |-> "Exit", text |-> "", reads |-> Append(acc.reads, file)]
        ELSE [kind |-> "Ok",
              text |-> Replace(acc.text, "#import " \o import,
                               ExpandOwn(fs[file], get_imports_from_str(fs[file]).imports, fs)),
              reads |-> Append(acc.reads, file)]

\* the closure run for_each import: read the file or exit the process, then
\* replace the directive in shader_contents
ImportStep(acc, import, import_path, fs) ==
    LET dir == IF import_path = <<>> THEN Root ELSE Root \o "/" \o import_path[1]
        file == dir \o "/" \o import
    IN  IF acc.kind # "Ok" THEN acc
        ELSE IF ~Readable(fs, file)
        THEN [kind |-> "Exit", text |-> "", reads |-> Append(acc.reads, file)]
        ELSE [kind |-> "Ok",
              text |-> Replace(acc.text, "#import " \o import, fs[file]),
              reads |-> Append(acc.reads, file)]

\* a mutant of ForEachImport: the loop stops after the first import
ForEachImport_first(acc, imports, import_path, fs) ==
    IF imports = <<>> THEN acc
    ELSE ImportStep(acc, Head(imports), import_path, fs)

\* imports.imports.iter().for_each(...)
RECURSIVE ForEachImport(_, _, _, _)
ForEachImport(acc, imports, import_path, fs) ==
    IF imports = <<>> THEN acc
    ELSE ForEachImport(ImportStep(acc, Head(imports), import_path, fs),
                       Tail(imports), import_path, fs)

\* a mutant of load_shader_inner: an unreadable root file exits the process
load_shader_inner_exit(fs, shader_path) ==
    LET file == Root \o "/" \o shader_path
    IN  IF ~Readable(fs, file)
        THEN [kind |-> "Exit", text |-> "", reads |-> <<file>>]
        ELSE LET imports == get_imports_from_str(fs[file])
             IN  ForEachImport([kind |-> "Ok", text |-> fs[file], reads |-> <<file>>],
                               imports.imports, imports.import_path, fs)

\* load_shader_inner: Ok(text), Err(io error), or the process exited
load_shader_inner(fs, shader_path) ==
    LET file == Root \o "/" \o shader_path
    IN  IF ~Readable(fs, file)
        THEN [kind |-> "Err", text |-> "", reads |-> <<file>>]
        ELSE LET imports == get_imports_from_str(fs[file])
             IN  ForEachImport([kind |-> "Ok", text |-> fs[file], reads |-> <<file>>],
                               imports.imports, imports.import_path, fs)

\* format!("{root}/{shader_path}.debug.wgsl")
DebugPath(shader_path) == Root \o "/" \o shader_path \o ".debug.wgsl"

\* fs after std::fs::write(path, text)
Written(fs, path, text) ==
    [p \in DOMAIN fs \cup {path} |-> IF p = path THEN text ELSE fs[p]]


\* what a call of load_shader or load_shader_with_dsl leaves behind: the
\* value returned ("none" when the call did not return), the process, the
\* asset tree, the source given to create_shader_module (<<>> when none)
Outcome(res, p, fs, created, inner) ==
    [result |-> res, proc |-> p, files |-> fs, created |-> created,
     reads |-> inner.reads, contents |-> inner.text]

\* a mutant of load_shader: the placeholder is cut out of the text handed over
load_shader_stripped(fs, shader_path) ==
    LET inner == load_shader_inner(fs, shader_path)
        shader == Replace(inner.text, "{PLACEHOLDER}", "")
    IN  CASE inner.kind = "Err"  -> Outcome("Err", "running", fs, <<>>, inner)
          [] inner.kind = "Exit" -> Outcome("none", "exited", fs, <<>>, inner)
          [] inner.kind = "Ok"   -> Outcome("Ok", "running", fs, <<shader>>, inner)

load_shader(fs, shader_path) ==
    LET inner == load_shader_inner(fs, shader_path)
    IN  CASE inner.kind = "Err"  -> Outcome("Err", "running", fs, <<>>, inner)
          [] inner.kind = "Exit" -> Outcome("none", "exited", fs, <<>>, inner)
          [] inner.kind = "Ok"   -> Outcome("Ok", "running", fs, <<inner.text>>, inner)

\* a mutant of load_shader_with_dsl: the debug file gets shader_contents
load_shader_with_dsl_rawdump(fs, shader_path, dsl, debug, writable) ==
    LET inner == load_shader_inner(fs, shader_path)
        shader_rules == Statement_to_shader(dsl)
        shader == Replace(inner.text, "{PLACEHOLDER}", shader_rules)
    IN  CASE inner.kind = "Err"  -> Outcome("Err", "running", fs, <<>>, inner)
          [] inner.kind = "Exit" -> Outcome("none", "exited", fs, <<>>, inner)
          [] inner.kind = "Ok" /\ ~debug ->
                Outcome("Ok", "running", fs, <<shader>>, inner)
          [] inner.kind = "Ok" /\ debug /\ writable ->
                Outcome("Ok", "running", Written(fs, DebugPath(shader_path), inner.text),
                        <<shader>>, inner)
          [] inner.kind = "Ok" /\ debug /\ ~writable ->
                Outcome("none", "panicked", fs, <<>>, inner)

\* a mutant of load_shader_with_dsl: the first placeholder alone is replaced
load_shader_with_dsl_replacen(fs, shader_path, dsl, debug, writable) ==
    LET inner == load_shader_inner(fs, shader_path)
        shader_rules == Statement_to_shader(dsl)
        at == {i \in 1..(Len(inner.text) - 12) : SubSeq(inner.text, i, i + 12) = "{PLACEHOLDER}"}
        first == CHOOSE i \in at : \A j \in at : i <= j
        shader == IF at = {} THEN inner.text
                  ELSE SubSeq(inner.text, 1, first - 1) \o shader_rules
                          \o SubSeq(inner.text, first + 13, Len(inner.text))
    IN  CASE inner.kind = "Err"  -> Outcome("Err", "running", fs, <<>>, inner)
          [] inner.kind = "Exit" -> Outcome("none", "exited", fs, <<>>, inner)
          [] inner.kind = "Ok" /\ ~debug ->
                Outcome("Ok", "running", fs, <<shader>>, inner)
          [] inner.kind = "Ok" /\ debug /\ writable ->
                Outcome("Ok", "running", Written(fs, DebugPath(shader_path), shader),
                        <<shader>>, inner)
          [] inner.kind = "Ok" /\ debug /\ ~writable ->
                Outcome("none", "panicked", fs, <<>>, inner)

\* a mutant of load_shader_with_dsl: shader_contents is handed over in place of shader
load_shader_with_dsl_unspliced(fs, shader_path, dsl, debug, writable) ==
    LET inner == load_shader_inner(fs, shader_path)
    IN  CASE inner.kind = "Err"  -> Outcome("Err", "running", fs, <<>>, inner)
          [] inner.kind = "Exit" -> Outcome("none", "exited", fs, <<>>, inner)
          [] inner.kind = "Ok" /\ ~debug ->
                Outcome("Ok", "running", fs, <<inner.text>>, inner)
          [] inner.kind = "Ok" /\ debug /\ writable ->
                Outcome("Ok", "running", Written(fs, DebugPath(shader_path), inner.text),
                        <<inner.text>>, inner)
          [] inner.kind = "Ok" /\ debug /\ ~writable ->
                Outcome("none", "panicked", fs, <<>>, inner)

\* a mutant of load_shader_with_dsl: the debug dump writes shader_contents
\* over the template it was read from
load_shader_with_dsl_overwrite(fs, shader_path, dsl, debug, writable) ==
    LET inner == load_shader_inner(fs, shader_path)
        shader_rules == Statement_to_shader(dsl)
        shader == Replace(inner.text, "{PLACEHOLDER}", shader_rules)
    IN  CASE inner.kind = "Err"  -> Outcome("Err", "running", fs, <<>>, inner)
          [] inner.kind = "Exit" -> Outcome("none", "exited", fs, <<>>, inner)
          [] inner.kind = "Ok" /\ ~debug ->
                Outcome("Ok", "running", fs, <<shader>>, inner)
          [] inner.kind = "Ok" /\ debug /\ writable ->
                Outcome("Ok", "running",
                        Written(fs, Root \o "/" \o shader_path, inner.text),
                        <<shader>>, inner)
          [] inner.kind = "Ok" /\ debug /\ ~writable ->
                Outcome("none", "panicked", fs, <<>>, inner)

load_shader_with_dsl(fs, shader_path, dsl, debug, writable) ==
    LET inner == load_shader_inner(fs, shader_path)
        shader_rules == Statement_to_shader(dsl)
        shader == Replace(inner.text, "{PLACEHOLDER}", shader_rules)
    IN  CASE inner.kind = "Err"  -> Outcome("Err", "running", fs, <<>>, inner)
          [] inner.kind = "Exit" -> Outcome("none", "exited", fs, <<>>, inner)
          [] inner.kind = "Ok" /\ ~debug ->
                Outcome("Ok", "running", fs, <<shader>>, inner)
          [] inner.kind = "Ok" /\ debug /\ writable ->
                Outcome("Ok", "running", Written(fs, DebugPath(shader_path), shader),
                        <<shader>>, inner)
          \* .expect("Failed to write shader file")
          [] inner.kind = "Ok" /\ debug /\ ~writable ->
                Outcome("none", "panicked", fs, <<>>, inner)

-----------------------------------------------------------------------------
(* LoadSpec: shaders are loaded from an asset tree                         *)

\* bound on the number of shader modules created
MaxLoads == 2

\* the calls Pipelines makes: <<shader_path, label>>
Calls == { <<"draw.wgsl", "draw_shader">>,
           <<"game_of_life.wgsl", "game_of_life_shader">> }

\* texts tried for assets/game_of_life.wgsl
Templates ==
    { "fn step() {\n{PLACEHOLDER}\n}\n",
      "#import common.wgsl\nfn step() {\n{PLACEHOLDER}\n}\n",
      "#import common.wgsl\n#define_import_path lib\n{PLACEHOLDER}\n",
      "  # import  common.wgsl\n{PLACEHOLDER}\n",
      "#import common.wgsl\n#import nested.wgsl\n{PLACEHOLDER};{PLACEHOLDER}\n",
      "#import nested.wgsl\n#import common.wgsl\nfn step() {}\n",
      "#import common.wgsl\n#import common.wgsl\nfn step() {}\n",
      "var x; #import common.wgsl\n{PLACEHOLDER}\n",
      "#import common.wgsl\r\n{PLACEHOLDER}\r\n",
      "#import common.wgsl \n{PLACEHOLDER}\n",
      "#import nested.wgsl\n",
      "#import common.wgsl\nvar x; #import common.wgsl\n",
      "# import common.wgsl\n",
      "#import  common.wgsl\n",
      "#define_import_path x\n#import common.wgsl\n#define_import_path lib\n" }

\* the files that may lie beside it
ImportPool ==
    [p \in {"assets/common.wgsl", "assets/lib/common.wgsl", "assets/nested.wgsl"} |->
        CASE p = "assets/common.wgsl" -> "fn count() {}\n"
          [] p = "assets/lib/common.wgsl" -> "fn lib_count() {}\n"
          [] p = "assets/nested.wgsl" -> "#import common.wgsl\n{PLACEHOLDER}\n"]

DrawText == "#import common.wgsl\nfn draw() {}\n"

\* an asset tree: draw.wgsl, game_of_life.wgsl unless roots = {}, and some
\* of the files of the pool
AssetTree(roots, present) ==
    [p \in {"assets/draw.wgsl"} \cup {"assets/game_of_life.wgsl" : r \in roots}
           \cup present |->
        IF p = "assets/draw.wgsl" THEN DrawText
        ELSE IF p = "assets/game_of_life.wgsl" THEN (CHOOSE r \in roots : TRUE)
        ELSE ImportPool[p]]

LoadInit ==
    /\ \E roots \in {{}} \cup {{t} : t \in Templates},
          present \in SUBSET DOMAIN ImportPool :
          files = AssetTree(roots, present)
    /\ env_debug \in BOOLEAN
    /\ fs_writable \in (IF env_debug THEN BOOLEAN ELSE {TRUE})
    /\ proc = "running"
    /\ load_call = <<>>
    /\ load_result = "none"
    /\ modules = <<>>
    /\ reads = <<>>
    /\ shader_contents = ""
    /\ \/ stmt = conways_game_of_life /\ ruleset = TRUE
       \/ stmt = void /\ ruleset = FALSE
    /\ stmt_text = ""
    /\ is_alive = U32v(0)
    /\ num_neighbors = U32v(0)
    /\ result = U32v(0)
    /\ pc = "load"
    /\ ExprIdle
    /\ WalkIdle
    /\ TimeIdle
    /\ RunIdle
    /\ ScanIdle
    /\ AppIdle

\* the state after a call that left out
Called(name, call, out) ==
    /\ load_call' = <<name, call[1]>>
    /\ load_result' = out.result
    /\ proc' = out.proc
    /\ files' = out.files
    /\ modules' = IF out.created = <<>> THEN modules
                  ELSE Append(modules, [label |-> call[2], source |-> out.created[1]])
    /\ reads' = out.reads
    /\ shader_contents' = out.contents
    /\ UNCHANGED <<env_debug, fs_writable, stmtVars, loadOthers, pc>>

\* Pipelines::load unwraps what each call returns before it goes on
CanLoad ==
    /\ pc = "load"
    /\ proc = "running"
    /\ load_result # "Err"
    /\ Len(modules) < MaxLoads

LoadShader ==
    /\ CanLoad
    /\ \E call \in Calls :
          Called("load_shader", call, load_shader(files, call[1]))

LoadShaderWithDsl ==
    /\ CanLoad
    /\ \E call \in Calls :
          Called("load_shader_with_dsl", call,
                 load_shader_with_dsl(files, call[1], stmt, env_debug, fs_writable))

\* .unwrap() on the Err a call returned: Pipelines::load panics
Unwrap ==
    /\ pc = "load"
    /\ proc = "running"
    /\ load_result = "Err"
    /\ proc' = "panicked"
    /\ UNCHANGED <<files, env_debug, fs_writable, load_call, load_result, modules,
                   reads, shader_contents, stmtVars, loadOthers, pc>>

LoadNext ==
    \/ LoadShader
    \/ LoadShaderWithDsl
    \/ Unwrap

LoadSpec == LoadInit /\ [][LoadNext]_vars


-----------------------------------------------------------------------------
(* WalkSpec: the calls of to_shader on a tree, one step per call or return *)

\* bound on the number of times the same tree is compiled
MaxRuns == 2

\* a mutant of Callees: a binary node compiles its left operand twice
Callees_left_twice(node) ==
    CASE node.tag \in LeafTags \cup {"Void"} -> <<>>
      [] node.tag \in CmpTags \cup BitTags -> <<node.lhs, node.lhs>>
      [] node.tag = "SetResult" -> <<node.expr>>
      [] node.tag = "IfThenElse" ->
            <<node.condition, node.if_true_then, node.if_false_then>>

\* the nodes the match arm of a node calls to_shader on, in argument order
Callees(node) ==
    CASE node.tag \in LeafTags \cup {"Void"} -> <<>>
      [] node.tag \in CmpTags \cup BitTags -> <<node.lhs, node.rhs>>
      [] node.tag = "SetResult" -> <<node.expr>>
      [] node.tag = "IfThenElse" ->
            <<node.condition, node.if_true_then, node.if_false_then>>

\* the String the match arm of a node builds from what its calls returned
Formatted(node, args) ==
    CASE node.tag = "U32"        -> FmtU32(node.val)
      [] node.tag = "Alive"      -> FmtAlive
      [] node.tag = "Neighbors"  -> FmtNeighbors
      [] node.tag = "Gt"         -> FmtGt(args[1], args[2])
      [] node.tag = "Gte"        -> FmtGte(args[1], args[2])
      [] node.tag = "Lt"         -> FmtLt(args[1], args[2])
      [] node.tag = "Lte"        -> FmtLte(args[1], args[2])
      [] node.tag = "And"        -> FmtAnd(args[1], args[2])
      [] node.tag = "Or"         -> FmtOr(args[1], args[2])
      [] node.tag = "Equal"      -> FmtEqual(args[1], args[2])
      [] node.tag = "Void"       -> FmtVoid
      [] node.tag = "SetResult"  -> FmtSetResult(args[1])
      [] node.tag = "IfThenElse" -> FmtIfThenElse(args[1], args[2], args[3])

WalkTrees ==
    LET base == StmtSeeds \cup {conways_game_of_life}
    IN  base \cup { if_then_else(c, s, b) : c \in Conditions, s \in base, b \in Branches }
             \cup { if_then_else(c, b, s) : c \in Conditions, s \in base, b \in Branches }

WalkInit ==
    /\ stmt \in WalkTrees
    /\ stmt_text = ""
    /\ ruleset = FALSE
    /\ is_alive = U32v(0)
    /\ num_neighbors = U32v(0)
    /\ result = U32v(0)
    /\ WalkIdle
    /\ TimeIdle
    /\ RunIdle
    /\ ScanIdle
    /\ AppIdle
    /\ pc = "idle"
    /\ ExprIdle
    /\ LoadIdle

Top == walk_stack[Len(walk_stack)]

\* dsl.to_shader()
WalkStart ==
    /\ pc \in {"idle", "done"}
    /\ walk_runs < MaxRuns
    /\ walk_self' = stmt
    /\ walk_stack' = << [node |-> stmt, args |-> <<>>] >>
    /\ walk_visited' = <<stmt>>
    /\ walk_depth' = 1
    /\ pc' = "walking"
    /\ UNCHANGED <<walk_out, walk_first, walk_runs, stmtVars, walkOthers>>

\* the running arm calls to_shader on its next operand
WalkCall ==
    /\ pc = "walking"
    /\ Len(Top.args) < Len(Callees(Top.node))
    /\ LET child == Callees(Top.node)[Len(Top.args) + 1]
       IN  /\ walk_stack' = Append(walk_stack, [node |-> child, args |-> <<>>])
           /\ walk_visited' = Append(walk_visited, child)
    /\ walk_depth' = IF Len(walk_stack) + 1 > walk_depth
                     THEN Len(walk_stack) + 1 ELSE walk_depth
    /\ UNCHANGED <<walk_self, walk_out, walk_first, walk_runs, pc, stmtVars, walkOthers>>

\* the running arm has all its operands' texts and returns its String
WalkReturn ==
    /\ pc = "walking"
    /\ Len(Top.args) = Len(Callees(Top.node))
    /\ LET text == Formatted(Top.node, Top.args)
           n == Len(walk_stack)
       IN  IF n = 1
           THEN /\ walk_stack' = <<>>
                /\ walk_out' = text
                /\ walk_first' = IF walk_runs = 0 THEN text ELSE walk_first
                /\ walk_runs' = walk_runs + 1
                /\ pc' = "done"
           ELSE /\ walk_stack' =
                      [SubSeq(walk_stack, 1, n - 1) EXCEPT
                          ![n - 1].args = Append(@, text)]
                /\ UNCHANGED <<walk_out, walk_first, walk_runs, pc>>
    /\ UNCHANGED <<walk_self, walk_visited, walk_depth, stmtVars, walkOthers>>

WalkNext ==
    \/ WalkStart
    \/ WalkCall
    \/ WalkReturn

\* the calling thread runs to_shader to completion
WalkSpec == WalkInit /\ [][WalkNext]_vars /\ WF_vars(WalkNext)


-----------------------------------------------------------------------------
(* Reading compiled text back                                              *)

ParseError == [tag |-> "Error"]

\* index of the closer that ends the bracket opened before position j, 0 if none
RECURSIVE ScanClose(_, _, _, _, _)
ScanClose(s, j, depth, opener, closer) ==
    IF j > Len(s) THEN 0
    ELSE IF Char(s, j) = opener THEN ScanClose(s, j + 1, depth + 1, opener, closer)
    ELSE IF Char(s, j) = closer
         THEN (IF depth = 1 THEN j ELSE ScanClose(s, j + 1, depth - 1, opener, closer))
    ELSE ScanClose(s, j + 1, depth, opener, closer)

\* index of the ")" matching the "(" at position i
MatchParen(s, i) == ScanClose(s, i + 1, 1, "(", ")")

\* the first position from j on at which s holds one of the characters cs,
\* 0 if none
NextOf(s, j, cs) ==
    LET at == {k \in j..Len(s) : Char(s, k) \in cs}
    IN  IF at = {} THEN 0 ELSE CHOOSE k \in at : \A m \in at : k <= m

\* ScanClose, going from one bracket to the next
RECURSIVE JumpClose(_, _, _, _, _)
JumpClose(s, j, depth, opener, closer) ==
    LET k == NextOf(s, j, {opener, closer})
    IN  IF k = 0 THEN 0
        ELSE IF Char(s, k) = opener THEN JumpClose(s, k + 1, depth + 1, opener, closer)
        ELSE IF depth = 1 THEN k
        ELSE JumpClose(s, k + 1, depth - 1, opener, closer)

\* index of the "}" matching the "{" at position i
MatchBrace(s, i) == JumpClose(s, i + 1, 1, "{", "}")

\* the first position of s at which p occurs, 0 if none
FirstIndex(s, p) ==
    LET at == {i \in 1..(Len(s) - Len(p) + 1) : SubSeq(s, i, i + Len(p) - 1) = p}
    IN  IF at = {} THEN 0 ELSE CHOOSE i \in at : \A j \in at : i <= j

\* "(L)<op>(R)" split by its parentheses alone: <<L, op, R>>, or <<>>
SplitBinary(body) ==
    IF Len(body) < 2 \/ Char(body, 1) # "(" THEN <<>>
    ELSE LET j == MatchParen(body, 1)
         IN  IF j = 0 THEN <<>>
             ELSE LET rest == SubSeq(body, j + 1, Len(body))
                      opens == {k \in 1..Len(rest) : Char(rest, k) = "("}
                  IN  IF opens = {} THEN <<>>
                      ELSE LET k == CHOOSE x \in opens : \A y \in opens : x <= y
                               m == MatchParen(rest, k)
                           IN  IF m # Len(rest) THEN <<>>
                               ELSE << SubSeq(body, 2, j - 1),
                                       SubSeq(rest, 1, k - 1),
                                       SubSeq(rest, k + 1, m - 1) >>

\* the value of a digit string by Horner's rule over the limbs; hi >= Limb
\* when the digits do not fit 32 bits
RECURSIVE HornerU32(_)
HornerU32(ds) ==
    IF Len(ds) = 0 THEN [hi |-> 0, lo |-> 0]
    ELSE LET acc == HornerU32(SubSeq(ds, 1, Len(ds) - 1))
             d == DigitVal(Char(ds, Len(ds)))
             lo == acc.lo * 10 + d
             hi == IF acc.hi >= Limb THEN Limb ELSE acc.hi * 10 + (lo \div Limb)
         IN  [hi |-> IF hi >= Limb THEN Limb ELSE hi, lo |-> lo % Limb]

AllDigits(ds) == Len(ds) >= 1 /\ \A i \in 1..Len(ds) : IsDigit(Char(ds, i))

\* t is the decimal text of the u32 v: digits only, no sign, no leading zero
IsDecimalOf(t, v) ==
    /\ AllDigits(t)
    /\ Len(t) > 1 => Char(t, 1) # "0"
    /\ HornerU32(t) = v

CmpTagOf(op) ==
    CASE op = " > "  -> "Gt"
      [] op = " >= " -> "Gte"
      [] op = " < "  -> "Lt"
      [] op = " <= " -> "Lte"
      [] op = " == " -> "Equal"
      [] OTHER -> "Error"

BitTagOf(op) ==
    CASE op = " & " -> "And"
      [] op = " | " -> "Or"
      [] OTHER -> "Error"

RECURSIVE ParseExpr(_)
ParseNode(tag, parts) ==
    IF tag = "Error" THEN ParseError
    ELSE LET l == ParseExpr(parts[1])
             r == ParseExpr(parts[3])
         IN  IF l = ParseError \/ r = ParseError THEN ParseError
             ELSE [tag |-> tag, lhs |-> l, rhs |-> r]

ParseExpr(t) ==
    IF t = "is_alive" THEN alive
    ELSE IF t = "num_neighbors" THEN neighbors
    ELSE IF StartsWith(t, "u32(") /\ EndsWith(t, ")")
    THEN LET parts == SplitBinary(SubSeq(t, 5, Len(t) - 1))
         IN  IF parts = <<>> THEN ParseError ELSE ParseNode(CmpTagOf(parts[2]), parts)
    ELSE IF StartsWith(t, "(") /\ EndsWith(t, ")")
    THEN LET parts == SplitBinary(SubSeq(t, 2, Len(t) - 1))
         IN  IF parts = <<>> THEN ParseError ELSE ParseNode(BitTagOf(parts[2]), parts)
    ELSE IF EndsWith(t, "u") /\ AllDigits(SubSeq(t, 1, Len(t) - 1))
    THEN LET v == HornerU32(SubSeq(t, 1, Len(t) - 1))
         IN  IF v.hi >= Limb THEN ParseError ELSE const_u32(v)
    ELSE ParseError

\* the subtrees of e, e included
RECURSIVE SubExprs(_)
SubExprs(e) ==
    IF IsLeaf(e) THEN {e} ELSE {e} \cup SubExprs(e.lhs) \cup SubExprs(e.rhs)

\* the leaves of e from left to right
RECURSIVE LeavesOf(_)
LeavesOf(e) == IF IsLeaf(e) THEN <<e>> ELSE LeavesOf(e.lhs) \o LeavesOf(e.rhs)

\* number of nodes of e carrying tag
RECURSIVE CountTag(_, _)
CountTag(e, tag) ==
    (IF e.tag = tag THEN 1 ELSE 0)
      + (IF IsLeaf(e) THEN 0 ELSE CountTag(e.lhs, tag) + CountTag(e.rhs, tag))

\* the words of t between parentheses and blanks, from left to right
\* (scanning from position i, the current word starting at position from)
RECURSIVE WordsFrom(_, _, _)
WordsFrom(t, i, from) ==
    LET word == IF from < i THEN <<SubSeq(t, from, i - 1)>> ELSE <<>>
    IN  IF i > Len(t) THEN word
        ELSE IF Char(t, i) \in {"(", ")", " "}
             THEN word \o WordsFrom(t, i + 1, i + 1)
             ELSE WordsFrom(t, i + 1, from)

Words(t) == WordsFrom(t, 1, 1)

OperatorWords == {"u32", ">", ">=", "<", "<=", "==", "&", "|"}

LeafWords(t) == SelectSeq(Words(t), LAMBDA w : w \notin OperatorWords)


-----------------------------------------------------------------------------
(* ExprSpec: a tree is built with the exprs::* constructors, then compiled *)

\* bound on the depth of the trees built
MaxDepth == 2

\* the u32 literals tried: zero, one digit, two digits, the sign bit of a
\* 32-bit integer (2^31) and the top of the range (2^32 - 1)
U32Samples ==
    { U32v(0), U32v(3), U32v(10), [hi |-> Limb \div 2, lo |-> 0], U32_MAX }

Leaves == {alive, neighbors} \cup {const_u32(v) : v \in U32Samples}

\* the second operand of a constructor call: the tree itself or a leaf
Operands(e) == {e, neighbors}

ExprInit ==
    /\ expr \in Leaves
    /\ expr_text = ""
    /\ pc = "build"
    /\ StmtIdle
    /\ LoadIdle
    /\ WalkIdle
    /\ TimeIdle
    /\ RunIdle
    /\ ScanIdle
    /\ AppIdle

\* the operand pairs a constructor is applied to
Pairs(e) == {<<e, o>> : o \in Operands(e)} \cup {<<o, e>> : o \in Operands(e)}

CanBuild == pc = "build" /\ ExprDepth(expr) < MaxDepth

Build_gt ==
    /\ CanBuild
    /\ \E p \in Pairs(expr) : expr' = gt(p[1], p[2])
    /\ UNCHANGED <<expr_text, pc, exprOthers>>

Build_gte ==
    /\ CanBuild
    /\ \E p \in Pairs(expr) : expr' = gte(p[1], p[2])
    /\ UNCHANGED <<expr_text, pc, exprOthers>>

Build_lt ==
    /\ CanBuild
    /\ \E p \in Pairs(expr) : expr' = lt(p[1], p[2])
    /\ UNCHANGED <<expr_text, pc, exprOthers>>

Build_lte ==
    /\ CanBuild
    /\ \E p \in Pairs(expr) : expr' = lte(p[1], p[2])
    /\ UNCHANGED <<expr_text, pc, exprOthers>>

Build_and ==
    /\ CanBuild
    /\ \E p \in Pairs(expr) : expr' = and(p[1], p[2])
    /\ UNCHANGED <<expr_text, pc, exprOthers>>

Build_or ==
    /\ CanBuild
    /\ \E p \in Pairs(expr) : expr' = or(p[1], p[2])
    /\ UNCHANGED <<expr_text, pc, exprOthers>>

Build_equal ==
    /\ CanBuild
    /\ \E p \in Pairs(expr) : expr' = equal(p[1], p[2])
    /\ UNCHANGED <<expr_text, pc, exprOthers>>

\* let text = expr.to_shader();
CompileExpr ==
    /\ pc = "build"
    /\ expr_text' = Expr_to_shader(expr)
    /\ pc' = "compiled"
    /\ UNCHANGED <<expr, exprOthers>>

ExprNext ==
    \/ Build_gt
    \/ Build_gte
    \/ Build_lt
    \/ Build_lte
    \/ Build_and
    \/ Build_or
    \/ Build_equal
    \/ CompileExpr

ExprSpec == ExprInit /\ [][ExprNext]_vars

-----------------------------------------------------------------------------
(* Claims on Expr::to_shader (ExprSpec)                                    *)

Compiled == pc = "compiled"

\* trees that could share a text with another tree: every tree of depth at
\* most one over the leaves, and the two associations of every operator pair
Rivals ==
    LET D1 == Leaves \cup
              { [tag |-> t, lhs |-> l, rhs |-> r] :
                    t \in CmpTags \cup BitTags, l \in Leaves, r \in Leaves }
        N1(t) == [tag |-> t, lhs |-> neighbors, rhs |-> neighbors]
    IN  D1 \cup { [tag |-> t, lhs |-> N1(u), rhs |-> neighbors] :
                      t \in CmpTags \cup BitTags, u \in CmpTags \cup BitTags }
           \cup { [tag |-> t, lhs |-> neighbors, rhs |-> N1(u)] :
                      t \in CmpTags \cup BitTags, u \in CmpTags \cup BitTags }

RivalTexts == { <<e, Expr_to_shader(e)>> : e \in Rivals }

RivalTextSet == { p[2] : p \in RivalTexts }

\* C3: the compiled text is fully parenthesized: a reader that follows only
\* the parentheses recovers the tree it was compiled from (operator and both
\* operands at every node), and no other tree compiles to the same text.
C3_RoundTrip ==
    Compiled =>
        /\ ParseExpr(expr_text) = expr
        /\ expr_text \in RivalTextSet =>
              \A p \in RivalTexts : p[2] = expr_text => p[1] = expr

C3_Witness ==
    /\ Compiled
    /\ ExprDepth(expr) = 2
    /\ ~IsLeaf(expr.lhs) /\ IsLeaf(expr.rhs)
    /\ expr.tag = "Or" /\ expr.lhs.tag = "Or"
    /\ ParseExpr(expr_text) = expr

\* the text And(a, b) and Or(a, b) must have, given the operands' texts
BitText(e) ==
    "((" \o Expr_to_shader(e.lhs) \o ") "
         \o (IF e.tag = "And" THEN "&" ELSE "|")
         \o " (" \o Expr_to_shader(e.rhs) \o "))"

\* C4: And and Or compile to the bitwise forms ((A) & (B)) and ((A) | (B))
\* with both operands present; the text holds one "&" per And node, one "|"
\* per Or node, and never "&&" or "||".
C4_BitwiseOnly ==
    Compiled =>
        /\ ~Contains(expr_text, "&&")
        /\ ~Contains(expr_text, "||")
        /\ Occurrences(expr_text, "&") = CountTag(expr, "And")
        /\ Occurrences(expr_text, "|") = CountTag(expr, "Or")
        /\ \A s \in SubExprs(expr) :
              s.tag \in BitTags => Contains(expr_text, BitText(s))
        /\ expr.tag \in BitTags => expr_text = BitText(expr)

C4_Witness ==
    /\ Compiled
    /\ expr.tag = "And"
    /\ ~IsLeaf(expr.rhs) /\ expr.rhs.tag = "Or"
    /\ Occurrences(expr_text, "&") = 1
    /\ Occurrences(expr_text, "|") = 1

CmpOp(tag) ==
    CASE tag = "Gt"    -> ">"
      [] tag = "Gte"   -> ">="
      [] tag = "Lt"    -> "<"
      [] tag = "Lte"   -> "<="
      [] tag = "Equal" -> "=="

\* the text a comparison must have, given the operands' texts
CmpText(e) ==
    "u32((" \o Expr_to_shader(e.lhs) \o ") " \o CmpOp(e.tag)
            \o " (" \o Expr_to_shader(e.rhs) \o "))"

\* C6: every comparison node compiles to u32((L) <op> (R)), operands in
\* order, with the operator of its variant; where it is an operand of And
\* or Or the operand text starts with the u32 cast.
C6_ComparisonCast ==
    Compiled =>
        /\ expr.tag \in CmpTags => expr_text = CmpText(expr)
        /\ \A s \in SubExprs(expr) :
              /\ s.tag \in CmpTags => Contains(expr_text, CmpText(s))
              /\ s.tag \in BitTags =>
                    /\ s.lhs.tag \in CmpTags =>
                          StartsWith(Expr_to_shader(s), "((u32(")
                    /\ s.rhs.tag \in CmpTags =>
                          Contains(Expr_to_shader(s), " (u32(")

C6_Witness ==
    /\ Compiled
    /\ expr.tag = "And"
    /\ expr.lhs.tag = "Gte" /\ expr.lhs.lhs # expr.lhs.rhs
    /\ expr.rhs.tag = "Neighbors"
    /\ StartsWith(expr_text, "((u32((")

\* the text a leaf must have
LeafOk(leaf, w) ==
    CASE leaf.tag = "U32" ->
            /\ EndsWith(w, "u")
            /\ IsDecimalOf(SubSeq(w, 1, Len(w) - 1), leaf.val)
      [] leaf.tag = "Alive" -> w = "is_alive"
      [] leaf.tag = "Neighbors" -> w = "num_neighbors"

\* C7: the words of the text that are not operators are, from left to
\* right, the texts of the tree's leaves: the decimal digits of n followed
\* by "u" for U32(n) (no sign, no wrap-around), is_alive for Alive and
\* num_neighbors for Neighbors, wherever the leaf sits.
C7_Leaves ==
    Compiled =>
        LET ws == LeafWords(expr_text)
            ls == LeavesOf(expr)
        IN  /\ Len(ws) = Len(ls)
            /\ \A i \in 1..Len(ls) : LeafOk(ls[i], ws[i])

C7_Witness ==
    /\ Compiled
    /\ ExprDepth(expr) = 2
    /\ const_u32(U32_MAX) \in SubExprs(expr)
    /\ Contains(expr_text, "(4294967295u)")


-----------------------------------------------------------------------------
(* Claims on Statement::to_shader and the ruleset (StmtSpec)               *)

StmtCompiled == pc \in {"compiled", "ran"}

\* C1: the tree rulesets::conways_game_of_life returns is Conway's rule:
\* run on a cell it leaves result = 1 exactly when the cell is alive with 2
\* or 3 neighbours or dead with 3 neighbours, and result = 0 otherwise.
C1_ConwayRule ==
    (pc = "ran" /\ ruleset) =>
        result = U32OfBool(
                    \/ is_alive = U32v(1) /\ num_neighbors \in {U32v(2), U32v(3)}
                    \/ is_alive = U32v(0) /\ num_neighbors = U32v(3))

C1_Witness ==
    /\ pc = "ran" /\ ruleset
    /\ is_alive = U32v(1)
    /\ num_neighbors = U32v(2)
    /\ result = U32v(1)

\* the text an IfThenElse must have, given the texts of its three parts
IfText(s) ==
    "if (" \o Expr_to_shader(s.condition) \o ") { "
           \o Statement_to_shader(s.if_true_then) \o " } else { "
           \o Statement_to_shader(s.if_false_then) \o " }"

\* C5: an IfThenElse compiles to if (C) { T } else { F }; the text holds
\* one if block and one else block per IfThenElse node of the tree, nested
\* ones and ones with a Void branch included.
C5_BothBranches ==
    StmtCompiled =>
        /\ stmt.tag = "IfThenElse" => stmt_text = IfText(stmt)
        /\ \A s \in SubStmts(stmt) :
              s.tag = "IfThenElse" => Contains(stmt_text, IfText(s))
        /\ Occurrences(stmt_text, "if (") = CountIf(stmt)
        /\ Occurrences(stmt_text, " } else { ") = CountIf(stmt)
        /\ Occurrences(stmt_text, "{") = 2 * CountIf(stmt)
        /\ Occurrences(stmt_text, "}") = 2 * CountIf(stmt)

C5_Witness ==
    /\ pc = "compiled"
    /\ stmt.tag = "IfThenElse"
    /\ stmt.if_false_then = void
    /\ stmt.if_true_then.tag = "IfThenElse"
    /\ stmt.if_true_then.if_true_then = void
    /\ EndsWith(stmt_text, " } else {  }")
    /\ Contains(stmt_text, ") {  } else { ")

\* number of SetResult nodes of s
RECURSIVE CountSetResult(_)
CountSetResult(s) ==
    CASE s.tag = "Void" -> 0
      [] s.tag = "SetResult" -> 1
      [] s.tag = "IfThenElse" ->
            CountSetResult(s.if_true_then) + CountSetResult(s.if_false_then)

\* C8: SetResult(e) compiles to "result = E;" with E the text of e, and
\* Void to the empty string, at the root and in every branch.
C8_SetResultVoid ==
    StmtCompiled =>
        /\ stmt.tag = "SetResult" =>
              stmt_text = "result = " \o Expr_to_shader(stmt.expr) \o ";"
        /\ stmt.tag = "Void" => stmt_text = ""
        /\ \A s \in SubStmts(stmt) :
              /\ s.tag = "IfThenElse" /\ s.if_true_then.tag = "SetResult" =>
                    Contains(stmt_text,
                        ") { result = " \o Expr_to_shader(s.if_true_then.expr) \o "; } else { ")
              /\ s.tag = "IfThenElse" /\ s.if_false_then.tag = "SetResult" =>
                    Contains(stmt_text,
                        " } else { result = " \o Expr_to_shader(s.if_false_then.expr) \o "; }")
              /\ s.tag = "IfThenElse" /\ s.if_true_then.tag = "Void" =>
                    Contains(stmt_text, ") {  } else { ")
              /\ s.tag = "IfThenElse" /\ s.if_false_then.tag = "Void" =>
                    Contains(stmt_text, " } else {  }")
        /\ Occurrences(stmt_text, "result = ") = CountSetResult(stmt)
        /\ Occurrences(stmt_text, ";") = CountSetResult(stmt)

C8_Witness ==
    /\ pc = "compiled"
    /\ stmt.tag = "IfThenElse"
    /\ stmt.if_true_then.tag = "SetResult"
    /\ stmt.if_false_then = void
    /\ EndsWith(stmt_text, "; } else {  }")

-----------------------------------------------------------------------------
(* Claims on shader loading (LoadSpec)                                     *)

\* the last call was load_shader_with_dsl, returned Ok, was given the
\* Conway ruleset, and its import-expanded template held one placeholder
ConwaySpliced ==
    /\ load_call # <<>>
    /\ load_call[1] = "load_shader_with_dsl"
    /\ load_result = "Ok"
    /\ ruleset
    /\ Occurrences(shader_contents, "{PLACEHOLDER}") = 1

\* the source of the shader module the last call created
LastSource == modules[Len(modules)].source

IfAlive == "if (is_alive) "

\* the texts between the braces of the if block and of the else block of
\* the if (is_alive) statement of src: <<T, F>>, or <<>>
AliveBlocks(src) ==
    LET i == FirstIndex(src, IfAlive \o "{")
        open1 == i + Len(IfAlive)
        close1 == MatchBrace(src, open1)
        open2 == close1 + Len(" else ") + 1
        close2 == MatchBrace(src, open2)
    IN  IF i = 0 \/ close1 = 0 THEN <<>>
        ELSE IF SubSeq(src, close1 + 1, open2) # " else {" \/ close2 = 0 THEN <<>>
        ELSE << SubSeq(src, open1 + 1, close1 - 1), SubSeq(src, open2 + 1, close2 - 1) >>

TwoOrThree ==
    "((u32((num_neighbors) == (2u))) | (u32((num_neighbors) == (3u))))"

\* C2 as stated: the resolved text holds a single result assignment.
C2_SingleAssignment ==
    ConwaySpliced =>
        /\ AliveBlocks(LastSource) # <<>>
        /\ Occurrences(LastSource, "result = ") = 1

\* C2, amended: the resolved text holds no placeholder and one
\* if (is_alive) {...} else {...} statement; each of its two branches holds
\* exactly one result assignment (two in the rule text): the true branch
\* the comparisons to 2u and to 3u joined by the bitwise OR, the false
\* branch the comparison to 3u alone.
C2_ConwayText ==
    ConwaySpliced =>
        /\ ~Contains(LastSource, "{PLACEHOLDER}")
        /\ Occurrences(LastSource, IfAlive \o "{") = 1
        /\ AliveBlocks(LastSource) # <<>>
        /\ LET T == AliveBlocks(LastSource)[1]
               F == AliveBlocks(LastSource)[2]
           IN  /\ Occurrences(T, "result = ") = 1
               /\ Occurrences(T, ";") = 1
               /\ T = " result = " \o TwoOrThree \o "; "
               /\ Occurrences(F, "result = ") = 1
               /\ Occurrences(F, ";") = 1
               /\ Contains(F, "u32((num_neighbors) == (3u))")
               /\ ~Contains(F, "2u")
               /\ ~Contains(F, "|")
        /\ Occurrences(LastSource, "result = ")
              = 2 + Occurrences(shader_contents, "result = ")

C2_Witness ==
    /\ ConwaySpliced
    /\ load_call[2] = "game_of_life.wgsl"
    /\ Len(reads) = 2
    /\ Contains(LastSource, "fn count() {}")
    /\ Contains(LastSource, "{\n" \o IfAlive \o "{ result = ")

\* some import the scanner finds in the root file of shader_path names a
\* file that cannot be read
MissingImport(fs, shader_path) ==
    LET file == Root \o "/" \o shader_path
    IN  /\ Readable(fs, file)
        /\ LET imports == get_imports_from_str(fs[file])
               dir == IF imports.import_path = <<>> THEN Root
                      ELSE Root \o "/" \o imports.import_path[1]
           IN  \E i \in 1..Len(imports.imports) :
                  ~Readable(fs, dir \o "/" \o imports.imports[i])

\* C10: a call on a template one of whose imports cannot be read ends in a
\* fatal failure (the process exits, or the call returns Err): it does not
\* return Ok, creates no shader module and writes no file.
C10_MissingImportFatal ==
    [][ \A call \in Calls :
          (load_call' # <<>> /\ load_call'[2] = call[1] /\ MissingImport(files, call[1])) =>
              /\ proc' = "exited" \/ load_result' = "Err"
              /\ load_result' # "Ok"
              /\ modules' = modules
              /\ files' = files ]_vars

C10_Witness ==
    /\ proc = "exited"
    /\ load_call = <<"load_shader_with_dsl", "game_of_life.wgsl">>
    /\ Len(reads) = 3
    /\ Readable(files, reads[2])
    /\ ~Readable(files, reads[3])
    /\ modules = <<>>

-----------------------------------------------------------------------------
(* Claims on the calls of to_shader (WalkSpec)                             *)

\* the nodes of a tree, each before its operands, operands left to right
RECURSIVE PreOrder(_)
PreOrder(node) ==
    CASE node.tag \in LeafTags \cup {"Void"} -> <<node>>
      [] node.tag \in CmpTags \cup BitTags ->
            <<node>> \o PreOrder(node.lhs) \o PreOrder(node.rhs)
      [] node.tag = "SetResult" -> <<node>> \o PreOrder(node.expr)
      [] node.tag = "IfThenElse" ->
            <<node>> \o PreOrder(node.condition) \o PreOrder(node.if_true_then)
                     \o PreOrder(node.if_false_then)

Max2(a, b) == IF a >= b THEN a ELSE b

\* the number of nodes on the longest path from the root of a tree to a leaf
RECURSIVE Height(_)
Height(node) ==
    CASE node.tag \in LeafTags \cup {"Void"} -> 1
      [] node.tag \in CmpTags \cup BitTags ->
            1 + Max2(Height(node.lhs), Height(node.rhs))
      [] node.tag = "SetResult" -> 1 + Height(node.expr)
      [] node.tag = "IfThenElse" ->
            1 + Max2(Height(node.condition),
                     Max2(Height(node.if_true_then), Height(node.if_false_then)))

WalkDone ==
    /\ walk_visited = PreOrder(stmt)
    /\ walk_depth = Height(stmt)
    /\ walk_out = Statement_to_shader(stmt)
    /\ walk_out = walk_first
    /\ walk_self = stmt

\* C9: compiling a tree ends: every run of to_shader returns a String,
\* having been called on each node of the tree exactly once, with as many
\* nested calls as the tree is high; no call is left without a next step;
\* the tree is as it was, and a second compilation returns the same text.
C9_TotalPure ==
    /\ [](pc = "done" => WalkDone)
    /\ [](pc = "walking" =>
            /\ Len(walk_visited) <= Len(PreOrder(stmt))
            /\ Len(walk_stack) \in 1..Height(stmt))
    /\ <>(pc = "done" /\ walk_runs = MaxRuns)

C9_Witness ==
    /\ pc = "done"
    /\ walk_runs = 2
    /\ stmt.tag = "IfThenElse"
    /\ stmt.if_true_then.tag = "IfThenElse"
    /\ stmt.if_false_then = void
    /\ walk_depth = 6
    /\ Len(walk_visited) = 17
    /\ walk_out = walk_first

-----------------------------------------------------------------------------
(* Claims on ShaderImportProcessor: outcomes of a load                     *)

\* format!("{root}/{shader_path}")
RootFile(shader_path) == Root \o "/" \o shader_path

\* what the scanner finds in the root file of shader_path
Declared(fs, shader_path) == get_imports_from_str(fs[RootFile(shader_path)])

\* the directory the imports of a file are read from
ImportDir(imports) ==
    IF imports.import_path = <<>> THEN Root ELSE Root \o "/" \o imports.import_path[1]

\* some line of text is l
HasLine(text, l) == \E k \in 1..Len(Lines(text)) : Lines(text)[k] = l

\* rd lists the root file and then every import the root declares, in
\* order, each of them readable
ReadsAllDeclared(fs, shader_path, rd) ==
    LET imports == Declared(fs, shader_path)
        n == Len(imports.imports)
    IN  /\ Len(rd) = n + 1
        /\ rd[1] = RootFile(shader_path)
        /\ \A i \in 1..n :
              /\ rd[i + 1] = ImportDir(imports) \o "/" \o imports.imports[i]
              /\ Readable(fs, rd[i + 1])

\* text is the full resolved text of shader_path: every declared import was
\* read, and no line "#import <target>" of a declared target is left in it,
\* other than a line an imported file holds itself
FullText(fs, shader_path, text, rd) ==
    /\ ReadsAllDeclared(fs, shader_path, rd)
    /\ LET imports == Declared(fs, shader_path).imports
       IN  \A i \in 1..Len(imports) :
              HasLine(text, "#import " \o imports[i]) =>
                  \E j \in 1..Len(imports) :
                      HasLine(fs[rd[j + 1]], "#import " \o imports[i])

\* the next step is a call of load_shader or of load_shader_with_dsl
CallStep == pc = "load" /\ proc = "running" /\ load_result # "Err"

\* the text given to create_shader_module agrees with what load_shader_inner
\* returned: the same text, or that text without any placeholder
SourceOf(name, contents, source) ==
    IF name = "load_shader" \/ ~Contains(contents, "{PLACEHOLDER}")
    THEN source = contents
    ELSE ~Contains(source, "{PLACEHOLDER}")

\* C11 as stated: after a call, either the full resolved text was produced
\* or the process terminated before control returned to the caller.
C11_FullOrTerminated ==
    load_call # <<>> =>
        \/ /\ load_result = "Ok"
           /\ FullText(files, load_call[2], shader_contents, reads)
        \/ /\ load_result = "none"
           /\ proc \in {"exited", "panicked"}

\* C11, amended: a call has one of three outcomes.  It returns Ok with a
\* shader module made from the full resolved text; or the root file is
\* unreadable and it returns Err with no text and no module; or the process
\* terminates before control returns, and no module is made.  No call
\* hands a partly resolved text to its caller.
C11_NoPartialResult ==
    [][ CallStep =>
          \/ /\ load_result' = "Ok"
             /\ proc' = "running"
             /\ FullText(files, load_call'[2], shader_contents', reads')
             /\ Len(modules') = Len(modules) + 1
             /\ SubSeq(modules', 1, Len(modules)) = modules
             /\ SourceOf(load_call'[1], shader_contents',
                         modules'[Len(modules')].source)
          \/ /\ load_result' = "Err"
             /\ proc' = "running"
             /\ ~Readable(files, RootFile(load_call'[2]))
             /\ shader_contents' = ""
             /\ modules' = modules
          \/ /\ load_result' = "none"
             /\ proc' \in {"exited", "panicked"}
             /\ modules' = modules ]_vars

C11_Witness ==
    /\ load_result = "Ok"
    /\ load_call = <<"load_shader_with_dsl", "game_of_life.wgsl">>
    /\ Len(reads) = 3
    /\ Len(modules) = 2
    /\ Contains(shader_contents, "fn count() {}")
    /\ ~HasLine(shader_contents, "#import nested.wgsl")

\* C12: a call on a root file that cannot be read returns Err to its caller
\* and the process keeps running: only the root file was given to
\* read_to_string, no file is written and no shader module is created.  The
\* caller, Pipelines::load, then panics on the Err it unwraps, and does
\* nothing else.
C12_RootErrorReturned ==
    [][ /\ (CallStep /\ ~Readable(files, RootFile(load_call'[2]))) =>
              /\ load_result' = "Err"
              /\ proc' = "running"
              /\ reads' = <<RootFile(load_call'[2])>>
              /\ files' = files
              /\ modules' = modules
        /\ (load_result = "Err" /\ proc = "running") =>
              /\ proc' = "panicked"
              /\ load_call' = load_call
              /\ load_result' = "Err"
              /\ files' = files
              /\ modules' = modules ]_vars

C12_Witness ==
    /\ proc = "panicked"
    /\ load_result = "Err"
    /\ load_call = <<"load_shader_with_dsl", "game_of_life.wgsl">>
    /\ env_debug
    /\ reads = <<"assets/game_of_life.wgsl">>
    /\ "assets/common.wgsl" \in DOMAIN files
    /\ DebugPath("game_of_life.wgsl") \notin DOMAIN files
    /\ Len(modules) = 1

\* C13: a call that repeats the call before it (same function, same
\* template, same rule statement, the files it reads unchanged) reads the
\* same files, resolves to the same text and hands the same source to
\* create_shader_module.
C13_Deterministic ==
    [][ (CallStep /\ load_result = "Ok" /\ load_call' = load_call) =>
          /\ load_result' = "Ok"
          /\ reads' = reads
          /\ shader_contents' = shader_contents
          /\ Len(modules') = Len(modules) + 1
          /\ modules'[Len(modules')].source = modules[Len(modules)].source ]_vars

C13_Witness ==
    /\ Len(modules) = 2
    /\ modules[1] = modules[2]
    /\ load_call = <<"load_shader_with_dsl", "game_of_life.wgsl">>
    /\ ruleset
    /\ env_debug
    /\ DebugPath("game_of_life.wgsl") \in DOMAIN files
    /\ Len(reads) = 3
    /\ Contains(shader_contents, "#import common.wgsl")

\* the text raw with each placeholder replaced by rules, found by cutting
\* raw at its first placeholder
Substituted(raw, rules) ==
    LET i == FirstIndex(raw, "{PLACEHOLDER}")
    IN  IF i = 0 THEN raw
        ELSE SubSeq(raw, 1, i - 1) \o rules
                \o Replace(SubSeq(raw, i + Len("{PLACEHOLDER}"), Len(raw)),
                           "{PLACEHOLDER}", rules)

\* C14: a call on a readable root file in which the scanner finds no import
\* reads that file alone and resolves to its raw contents; it does not exit
\* and returns no error.  The source handed to create_shader_module is
\* the raw contents for load_shader, and the raw contents with the compiled
\* rule in place of the placeholder for load_shader_with_dsl.
C14_NoImportsRaw ==
    [][ \A call \in Calls :
          ( /\ CallStep
            /\ load_call'[2] = call[1]
            /\ Readable(files, RootFile(call[1]))
            /\ Declared(files, call[1]).imports = <<>> ) =>
              /\ reads' = <<RootFile(call[1])>>
              /\ shader_contents' = files[RootFile(call[1])]
              /\ load_result' # "Err"
              /\ proc' # "exited"
              /\ load_result' = "Ok" =>
                    /\ Len(modules') = Len(modules) + 1
                    /\ modules'[Len(modules')].source =
                          IF load_call'[1] = "load_shader"
                          THEN files[RootFile(call[1])]
                          ELSE Substituted(files[RootFile(call[1])],
                                           Statement_to_shader(stmt)) ]_vars

C14_Witness ==
    /\ load_result = "Ok"
    /\ load_call = <<"load_shader", "game_of_life.wgsl">>
    /\ reads = <<"assets/game_of_life.wgsl">>
    /\ "assets/common.wgsl" \in DOMAIN files
    /\ Contains(shader_contents, "var x; #import common.wgsl")
    /\ modules[Len(modules)].source = shader_contents
    /\ Contains(shader_contents, "{PLACEHOLDER}")

-----------------------------------------------------------------------------
(* Claims on ShaderImportProcessor: directives inside imported files       *)

\* the directives "#import <target>" the scanner would find in text
OwnDirectives(text) ==
    LET imports == get_imports_from_str(text).imports
    IN  { "#import " \o imports[k] : k \in 1..Len(imports) }

\* C20 as stated: a directive an imported file holds is never expanded: it
\* is still in the resolved text.
C20_NeverExpanded ==
    (load_result = "Ok" /\ ReadsAllDeclared(files, load_call[2], reads)) =>
        \A i \in 2..Len(reads) :
            \A d \in OwnDirectives(files[reads[i]]) : Contains(shader_contents, d)

\* C20, amended: imported files are not scanned: the files read are the
\* root and the imports the root declares, nothing else.  A directive an
\* imported file holds stays in the resolved text, unless the root declares
\* the same target later in its list: the substitution made for that later
\* import then replaces the directive the imported file brought in too.
C20_SinglePass ==
    load_result = "Ok" =>
        /\ ReadsAllDeclared(files, load_call[2], reads)
        /\ LET imports == Declared(files, load_call[2]).imports
           IN  \A i \in 1..Len(imports) :
                  \A d \in OwnDirectives(files[reads[i + 1]]) :
                      Contains(shader_contents, d)
                          <=> ~\E j \in (i + 1)..Len(imports) : d = "#import " \o imports[j]

C20_Witness ==
    /\ load_result = "Ok"
    /\ load_call[2] = "game_of_life.wgsl"
    /\ reads = <<"assets/game_of_life.wgsl", "assets/nested.wgsl">>
    /\ "assets/common.wgsl" \in DOMAIN files
    /\ HasLine(shader_contents, "#import common.wgsl")
    /\ ~Contains(shader_contents, "fn count() {}")

-----------------------------------------------------------------------------
(* Time (gameloop.rs): a clock updated from Instants                       *)
(*                                                                         *)
(* An Instant is a number of quarter seconds since the process started and *)
(* a Duration a number of quarter seconds; a float of seconds is the pair  *)
(* [secs, quarters] standing for secs + quarters / 4, which f32 and f64    *)
(* both hold exactly.                                                      *)

\* bound on the Instants the clock ever shows
MaxInstant == 4

\* Instant - Instant: Instant::duration_since, which saturates at zero
Instant_sub(later, earlier) == IF later >= earlier THEN later - earlier ELSE 0

\* Duration::as_secs_f32
as_secs_f32(duration) == [secs |-> duration \div 4, quarters |-> duration % 4]

\* Duration::as_secs_f64
as_secs_f64(duration) == [secs |-> duration \div 4, quarters |-> duration % 4]

\* Time::update_with_instant
update_with_instant(self, instant) ==
    LET delta == Instant_sub(instant,
                             IF self.last_update # <<>> THEN self.last_update[1]
                             ELSE self.startup)
    IN  IF self.last_update # <<>>
        THEN [self EXCEPT !.delta = delta,
                          !.delta_seconds = as_secs_f32(delta),
                          !.delta_seconds_f64 = as_secs_f64(delta),
                          !.last_update = <<instant>>]
        ELSE [self EXCEPT !.first_update = <<instant>>,
                          !.last_update = <<instant>>]

\* Time::pause
pause(self) == [self EXCEPT !.paused = TRUE]

\* Time::unpause
unpause(self) == [self EXCEPT !.paused = FALSE]

TimeInit ==
    /\ clock \in 0..1
    /\ time = Time_default(clock)
    /\ pc = "time"
    /\ ExprIdle
    /\ StmtIdle
    /\ LoadIdle
    /\ WalkIdle
    /\ RunIdle
    /\ ScanIdle
    /\ AppIdle

\* real time passes
Tick ==
    /\ pc = "time"
    /\ clock < MaxInstant
    /\ clock' = clock + 1
    /\ UNCHANGED <<time, pc, timeOthers>>

\* Time::update: update_with_instant(Instant::now())
Update ==
    /\ pc = "time"
    /\ time' = update_with_instant(time, clock)
    /\ UNCHANGED <<clock, pc, timeOthers>>

\* Time::update_with_instant with an Instant of the caller's choice
UpdateWithInstant ==
    /\ pc = "time"
    /\ \E instant \in 0..MaxInstant : time' = update_with_instant(time, instant)
    /\ UNCHANGED <<clock, pc, timeOthers>>

Pause ==
    /\ pc = "time"
    /\ time' = pause(time)
    /\ UNCHANGED <<clock, pc, timeOthers>>

Unpause ==
    /\ pc = "time"
    /\ time' = unpause(time)
    /\ UNCHANGED <<clock, pc, timeOthers>>

TimeNext ==
    \/ Tick
    \/ Update
    \/ UpdateWithInstant
    \/ Pause
    \/ Unpause

TimeSpec == TimeInit /\ [][TimeNext]_vars

\* C15: a paused clock does not advance: from a state in which the clock is
\* paused no step changes delta, delta_seconds or delta_seconds_f64; they
\* change again only once unpause() has been called.
C15_PausedClockHolds ==
    [][ time.paused =>
          /\ time'.delta = time.delta
          /\ time'.delta_seconds = time.delta_seconds
          /\ time'.delta_seconds_f64 = time.delta_seconds_f64 ]_vars

-----------------------------------------------------------------------------
(* diamond::run: the winit event loop and the DiamondApp callbacks         *)
(*                                                                         *)
(* The closure given to event_loop.run is called once per event; one       *)
(* action per arm of its match does what the whole call does.  The order   *)
(* in which winit delivers events is not assumed, except that LoopDestroyed*)
(* comes last and only once the control flow is exit.                      *)

\* bound on the number of events delivered to the closure
MaxEvents == 4

\* PhysicalSize<u32> values carried by Resized and ScaleFactorChanged
Sizes == { <<0, 600>>, <<800, 0>>, <<1024, 768>> }

\* window.inner_size() when the context is created
StartSizes == { <<800, 600>>, <<1024, 768>> }

\* input.virtual_keycode: None is <<>>, Some(key) is <<key>>
KeyboardInputs ==
    [kind : {"KeyboardInput"}, key : {<<>>, <<"Escape">>, <<"Space">>},
     state : {"Pressed", "Released"}, is_synthetic : BOOLEAN]

\* Event::WindowEvent { event, .. }
WindowEvents ==
    [kind : {"Resized", "ScaleFactorChanged"}, size : Sizes]
        \cup KeyboardInputs
        \cup [kind : {"CloseRequested", "CursorMoved"}]

\* Event::RedrawRequested(window_id), with what get_current_texture returns
\* when the closure asks for the frame
RedrawEvents ==
    [kind : {"RedrawRequested"}, window : {"own"}, frame : {"Ok", "Timeout", "OutOfMemory"}]
        \cup [kind : {"RedrawRequested"}, window : {"other"}, frame : {"Ok"}]

\* a mutant of resize: the new size is stored whatever it is
resize_unguarded(self, new_size) == [size |-> new_size, config |-> new_size]

\* DiamondContext::resize: the context after the call
resize(self, new_size) ==
    IF new_size[1] > 0 /\ new_size[2] > 0
    THEN [size |-> new_size, config |-> new_size]
    ELSE self

\* DiamondContext::resize: the surface after the call
resize_surface(surf, new_size) ==
    IF new_size[1] > 0 /\ new_size[2] > 0
    THEN [config |-> new_size, configures |-> surf.configures + 1]
    ELSE surf

\* a mutant of closes_window: a synthetic key press closes the window too
closes_window_synthetic(ev) ==
    \/ ev.kind = "CloseRequested"
    \/ /\ ev.kind = "KeyboardInput"
       /\ ev.key = <<"Escape">>
       /\ ev.state = "Pressed"

\* the window events that set request_window_close
closes_window(ev) ==
    \/ ev.kind = "CloseRequested"
    \/ /\ ev.kind = "KeyboardInput"
       /\ ev.key # <<>>
       /\ ~ev.is_synthetic
       /\ ev.key[1] = "Escape"
       /\ ev.state = "Pressed"

\* a mutant of closure: app.input is called after the event was handled
closure_input_last(handling) == <<"set_poll">> \o handling \o <<"input">>

\* what one call of the closure does, in order: control_flow.set_poll(),
\* app.input(..), then the arm of the match
closure(handling) == <<"set_poll", "input">> \o handling

\* a mutant of redraw: the frame is rendered before the app is updated
redraw_render_first(frame) ==
    IF frame = "Ok"
    THEN <<"get_current_texture", "create_command_encoder", "render", "update",
           "post_processing", "submit", "present", "after_render">>
    ELSE <<"update", "get_current_texture">>

\* the arm Event::RedrawRequested(window_id) if window_id == ctx.window().id()
redraw(frame) ==
    IF frame = "Ok"
    THEN <<"update", "get_current_texture", "create_command_encoder", "render",
           "post_processing", "submit", "present", "after_render">>
    ELSE <<"update", "get_current_texture">>

\* stage_count after the calls cs
Counted(count, cs) ==
    [s \in Stages |-> count[s] + Cardinality({k \in 1..Len(cs) : cs[k] = s})]

RunInit ==
    /\ \E size \in StartSizes :
          /\ ctx = [size |-> size, config |-> size]
          /\ surface = [config |-> size, configures |-> 1]
    /\ control_flow = "poll"
    /\ request_window_close = FALSE
    /\ window_redraw = FALSE
    /\ event = [kind |-> "none"]
    /\ calls = <<>>
    /\ stage_count = [s \in Stages |-> 0]
    /\ delivered = 0
    /\ pc = "boot"
    /\ ExprIdle
    /\ StmtIdle
    /\ LoadIdle
    /\ WalkIdle
    /\ TimeIdle
    /\ ScanIdle
    /\ AppIdle

\* app.start(&event_loop, &mut ctx), then event_loop.run(..)
Start ==
    /\ pc = "boot"
    /\ calls' = <<"start">>
    /\ stage_count' = Counted(stage_count, <<"start">>)
    /\ pc' = "events"
    /\ UNCHANGED <<control_flow, request_window_close, ctx, surface, window_redraw,
                   event, delivered, runOthers>>

\* winit calls the closure with ev, which does cs
Deliver(ev, cs) ==
    /\ pc = "events"
    /\ delivered < MaxEvents
    /\ event' = ev
    /\ calls' = cs
    /\ stage_count' = Counted(stage_count, cs)
    /\ delivered' = delivered + 1

\* control_flow after the closure returns: ExitWithCode is sticky in winit
Flow(exits) == IF exits \/ control_flow = "exit" THEN "exit" ELSE "poll"

OnWindowEvent ==
    \E ev \in WindowEvents :
        /\ Deliver(ev, closure(IF ev.kind \in {"Resized", "ScaleFactorChanged"}
                               THEN <<"resize">> ELSE <<>>))
        /\ ctx' = IF ev.kind \in {"Resized", "ScaleFactorChanged"}
                  THEN resize(ctx, ev.size) ELSE ctx
        /\ surface' = IF ev.kind \in {"Resized", "ScaleFactorChanged"}
                      THEN resize_surface(surface, ev.size) ELSE surface
        /\ request_window_close' = (request_window_close \/ closes_window(ev))
        /\ control_flow' = Flow(FALSE)
        /\ UNCHANGED <<window_redraw, pc, runOthers>>

OnMainEventsCleared ==
    /\ Deliver([kind |-> "MainEventsCleared"],
               closure(IF request_window_close THEN <<"set_exit", "end">> ELSE <<>>))
    /\ control_flow' = Flow(request_window_close)
    /\ UNCHANGED <<request_window_close, ctx, surface, window_redraw, pc, runOthers>>

OnRedrawRequested ==
    \E ev \in RedrawEvents :
        /\ Deliver(ev, closure(IF ev.window = "own" THEN redraw(ev.frame) ELSE <<>>))
        /\ window_redraw' = FALSE
        /\ control_flow' = Flow(FALSE)
        \* panic!("Swapchain error: {error}. Rendering cannot continue.")
        /\ pc' = IF ev.window = "own" /\ ev.frame = "OutOfMemory" THEN "panicked" ELSE pc
        /\ UNCHANGED <<request_window_close, ctx, surface, runOthers>>

OnRedrawEventsCleared ==
    /\ Deliver([kind |-> "RedrawEventsCleared"], closure(<<"request_redraw">>))
    /\ window_redraw' = TRUE
    /\ control_flow' = Flow(FALSE)
    /\ UNCHANGED <<request_window_close, ctx, surface, pc, runOthers>>

\* the arm _ => {} on an event of another kind
OnOtherEvent ==
    /\ Deliver([kind |-> "NewEvents"], closure(<<>>))
    /\ control_flow' = Flow(FALSE)
    /\ UNCHANGED <<request_window_close, ctx, surface, window_redraw, pc, runOthers>>

\* the arm _ => {} on the last event winit delivers once the flow is exit
OnLoopDestroyed ==
    /\ control_flow = "exit"
    /\ Deliver([kind |-> "LoopDestroyed"], closure(<<>>))
    /\ pc' = "destroyed"
    /\ UNCHANGED <<control_flow, request_window_close, ctx, surface, window_redraw,
                   runOthers>>

RunNext ==
    \/ Start
    \/ OnWindowEvent
    \/ OnMainEventsCleared
    \/ OnRedrawRequested
    \/ OnRedrawEventsCleared
    \/ OnOtherEvent
    \/ OnLoopDestroyed

RunSpec == RunInit /\ [][RunNext]_vars

-----------------------------------------------------------------------------
(* Claims on diamond::run                                                  *)

IsStage(c) == c \in Stages

\* the DiamondApp callbacks among the calls cs, in call order
AppCalls(cs) == SelectSeq(cs, IsStage)

IsFrameOp(c) ==
    c \in {"update", "render", "post_processing", "submit", "present", "after_render",
           "end_of_frame"}

\* the per-frame stages and the submit and present among the calls cs
FrameOps(cs) == SelectSeq(cs, IsFrameOp)

Did(cs, c) == \E k \in 1..Len(cs) : cs[k] = c

\* the last step delivered a RedrawRequested event of the app's window
OwnRedraw == event.kind = "RedrawRequested" /\ event.window = "own"

\* C16: a frame that runs update and render also runs end_of_frame, as the
\* last of the callbacks of that frame.
C16_EndOfFrameLast ==
    (Did(calls, "update") /\ Did(calls, "render")) =>
        AppCalls(calls)[Len(AppCalls(calls))] = "end_of_frame"

\* C17 as stated: every RedrawRequested event of the app's window runs
\* update, render, post_processing, submit, present, after_render, in order.
C17_EveryFrameAllStages ==
    OwnRedraw =>
        FrameOps(calls) =
            <<"update", "render", "post_processing", "submit", "present", "after_render">>

\* C17, amended: every RedrawRequested event of the app's window runs
\* update first.  When the surface then gives a frame, render,
\* post_processing, submit, present and after_render follow in that order;
\* when it gives none, no further stage runs for that event, and the
\* closure panics if the error is OutOfMemory.  No other event runs a stage
\* of the frame.
C17_StageOrder ==
    /\ (OwnRedraw /\ event.frame = "Ok") =>
          FrameOps(calls) =
              <<"update", "render", "post_processing", "submit", "present", "after_render">>
    /\ (OwnRedraw /\ event.frame # "Ok") => FrameOps(calls) = <<"update">>
    /\ OwnRedraw => (pc = "panicked" <=> event.frame = "OutOfMemory")
    /\ ~OwnRedraw => (FrameOps(calls) = <<>> /\ pc # "panicked")

C17_Witness ==
    /\ OwnRedraw
    /\ event.frame = "Timeout"
    /\ pc = "events"
    /\ AppCalls(calls) = <<"input", "update">>
    /\ stage_count["update"] = 2
    /\ stage_count["render"] = 1
    /\ stage_count["after_render"] = 1

\* a CloseRequested event or a non-synthetic press of Escape
IsCloseRequest(ev) ==
    \/ ev.kind = "CloseRequested"
    \/ /\ ev.kind = "KeyboardInput"
       /\ ev.key = <<"Escape">>
       /\ ev.state = "Pressed"
       /\ ~ev.is_synthetic

\* C18: at each event, the close request is set exactly when it was set
\* before or the event is a close request: it is set by those events alone
\* and never cleared.  A MainEventsCleared event received with the close
\* request set sets the control flow to exit and then calls app.end, and
\* app.end is called at no other time.
C18_EndAtExit ==
    [][ /\ delivered' = delivered + 1 =>
              /\ request_window_close' = (request_window_close \/ IsCloseRequest(event'))
              /\ (event'.kind = "MainEventsCleared" /\ request_window_close) =>
                    /\ control_flow' = "exit"
                    /\ SubSeq(calls', Len(calls') - 1, Len(calls')) = <<"set_exit", "end">>
              /\ control_flow = "exit" => control_flow' = "exit"
        /\ stage_count'["end"] # stage_count["end"] =>
              /\ stage_count'["end"] = stage_count["end"] + 1
              /\ delivered' = delivered + 1
              /\ event'.kind = "MainEventsCleared"
              /\ request_window_close
              /\ control_flow' = "exit" ]_vars

C18_Witness ==
    /\ event.kind = "MainEventsCleared"
    /\ stage_count["end"] = 1
    /\ control_flow = "exit"
    /\ request_window_close
    /\ delivered = 3
    /\ stage_count["update"] = 1
    /\ stage_count["input"] = 3

\* C19: app.start has run once as soon as run has passed it and not at all
\* before, and no event is delivered before it; app.input has run once per
\* event delivered, and within the call of the closure for an event it
\* comes before everything the closure does with that event.
C19_StartThenInput ==
    /\ pc = "boot" => (delivered = 0 /\ stage_count["start"] = 0)
    /\ pc # "boot" => stage_count["start"] = 1
    /\ Did(calls, "start") => delivered = 0
    /\ stage_count["input"] = delivered
    /\ delivered > 0 =>
          /\ Cardinality({k \in 1..Len(calls) : calls[k] = "input"}) = 1
          /\ \A k \in 1..Len(calls) :
                calls[k] \notin {"set_poll", "input"} =>
                    \E i \in 1..(k - 1) : calls[i] = "input"

C19_Witness ==
    /\ event.kind = "Resized"
    /\ calls = <<"set_poll", "input", "resize">>
    /\ stage_count["start"] = 1
    /\ delivered = 2
    /\ ctx.size = <<1024, 768>>
    /\ surface.configures = 2

-----------------------------------------------------------------------------
(* Claims on ShaderImportProcessor: what the substitutions do to the text  *)

\* the positions at which str::replace finds pat in t from position j on:
\* the leftmost match, then the leftmost one that starts after its end
RECURSIVE MatchesFrom(_, _, _)
MatchesFrom(t, pat, j) ==
    LET at == {i \in j..(Len(t) - Len(pat) + 1) : SubSeq(t, i, i + Len(pat) - 1) = pat}
    IN  IF at = {} THEN <<>>
        ELSE LET i == CHOOSE k \in at : \A m \in at : k <= m
             IN  <<i>> \o MatchesFrom(t, pat, i + Len(pat))

\* a resolved text as pieces: own is TRUE for text of the root file and
\* FALSE for text an import brought in.  The piece t of root text cut at the
\* matches at, the text to put in for each match
RECURSIVE CutAt(_, _, _, _, _)
CutAt(t, at, from, patlen, to) ==
    IF at = <<>> THEN <<[text |-> SubSeq(t, from, Len(t)), own |-> TRUE]>>
    ELSE <<[text |-> SubSeq(t, from, Head(at) - 1), own |-> TRUE],
           [text |-> to, own |-> FALSE]>>
             \o CutAt(t, Tail(at), Head(at) + patlen, patlen, to)

\* every match of pat in the root's own pieces replaced by to
RECURSIVE SpliceInto(_, _, _)
SpliceInto(pieces, pat, to) ==
    IF pieces = <<>> THEN <<>>
    ELSE (IF Head(pieces).own
          THEN CutAt(Head(pieces).text, MatchesFrom(Head(pieces).text, pat, 1), 1,
                     Len(pat), to)
          ELSE <<Head(pieces)>>)
            \o SpliceInto(Tail(pieces), pat, to)

RECURSIVE Joined(_)
Joined(pieces) ==
    IF pieces = <<>> THEN "" ELSE Head(pieces).text \o Joined(Tail(pieces))

\* the text of import k of the list, as it stands in the result: brought[k]
\* for each k
RECURSIVE RootSpliced(_, _, _, _)
RootSpliced(pieces, imports, k, brought) ==
    IF k > Len(imports) THEN pieces
    ELSE RootSpliced(SpliceInto(pieces, "#import " \o imports[k], brought[k]),
                     imports, k + 1, brought)

\* the file import k of the root of shader_path is read from
ImportFile(fs, shader_path, k) ==
    ImportDir(Declared(fs, shader_path)) \o "/" \o Declared(fs, shader_path).imports[k]

\* text with the directives of the imports after import k replaced, one
\* import after the other
RECURSIVE LaterExpanded(_, _, _, _, _)
LaterExpanded(text, fs, shader_path, imports, j) ==
    IF j > Len(imports) THEN text
    ELSE LaterExpanded(
            Joined(SpliceInto(<<[text |-> text, own |-> TRUE]>>,
                              "#import " \o imports[j], fs[ImportFile(fs, shader_path, j)])),
            fs, shader_path, imports, j + 1)

\* C21 as stated: the resolved text is the text of the root file with every
\* occurrence of "#import <target>" of a declared target replaced by the
\* full text of the imported file, and nothing else changed.
C21_RootOccurrencesOnly ==
    load_result = "Ok" =>
        LET imports == Declared(files, load_call[2]).imports
            root == <<[text |-> files[RootFile(load_call[2])], own |-> TRUE]>>
            full == [k \in 1..Len(imports) |-> files[ImportFile(files, load_call[2], k)]]
        IN  shader_contents = Joined(RootSpliced(root, imports, 1, full))

\* C21, amended: the substitutions are made one target after the other on
\* the text accumulated so far.  The text outside the occurrences of
\* "#import <target>" in the root file is unchanged, and every such
\* occurrence, a whole line or not, is replaced by the text of the imported
\* file: its full text, in which the occurrences of "#import <later>" for
\* the targets declared later in the list have been replaced too.
C21_AccumulatedText ==
    load_result = "Ok" =>
        LET imports == Declared(files, load_call[2]).imports
            root == <<[text |-> files[RootFile(load_call[2])], own |-> TRUE]>>
            expanded == [k \in 1..Len(imports) |->
                            LaterExpanded(files[ImportFile(files, load_call[2], k)],
                                          files, load_call[2], imports, k + 1)]
        IN  shader_contents = Joined(RootSpliced(root, imports, 1, expanded))

C21_Witness ==
    /\ load_result = "Ok"
    /\ load_call[2] = "game_of_life.wgsl"
    /\ Len(reads) = 2
    /\ Contains(files[RootFile("game_of_life.wgsl")], "var x; #import common.wgsl")
    /\ Occurrences(shader_contents, "fn count() {}") = 2
    /\ Contains(shader_contents, "var x; fn count() {}")

\* the paths the imports of the root of shader_path are to be read from, in
\* the order of the scanned list
ExpectedReads(fs, shader_path) ==
    [k \in 1..Len(Declared(fs, shader_path).imports) |-> ImportFile(fs, shader_path, k)]

\* the index of the first path of paths that cannot be read, 0 when all can
FirstUnreadable(fs, paths) ==
    LET bad == {k \in 1..Len(paths) : ~Readable(fs, paths[k])}
    IN  IF bad = {} THEN 0 ELSE CHOOSE k \in bad : \A j \in bad : k <= j

\* C22: a call on a readable root file reads the root and then the import
\* targets in first-seen order, one read per entry of the scanned list,
\* each from <asset_root>/<import_path>/<target> when the root declares an
\* import path (on whatever line) and from <asset_root>/<target>
\* otherwise.  The first target that cannot be read exits the process, and
\* no later target is read.
C22_ReadsInOrder ==
    (load_call # <<>> /\ Readable(files, RootFile(load_call[2]))) =>
        LET expected == ExpectedReads(files, load_call[2])
            bad == FirstUnreadable(files, expected)
        IN  /\ reads[1] = RootFile(load_call[2])
            /\ IF bad = 0
               THEN /\ reads = <<RootFile(load_call[2])>> \o expected
                    /\ proc # "exited"
               ELSE /\ reads = <<RootFile(load_call[2])>> \o SubSeq(expected, 1, bad)
                    /\ proc = "exited"
                    /\ load_result = "none"

C22_Witness ==
    /\ load_result = "Ok"
    /\ load_call[2] = "game_of_life.wgsl"
    /\ StartsWith(files[RootFile("game_of_life.wgsl")],
                  "#import common.wgsl\n#define_import_path lib\n")
    /\ "assets/common.wgsl" \in DOMAIN files
    /\ reads = <<"assets/game_of_life.wgsl", "assets/lib/common.wgsl">>
    /\ Contains(shader_contents, "fn lib_count() {}")

\* a call stopped by its first unreadable target, a later one left unread
C22_StoppedEarly ==
    /\ proc = "exited"
    /\ Len(Declared(files, load_call[2]).imports) = 2
    /\ Len(reads) = 2
    /\ "assets/nested.wgsl" \in DOMAIN files

-----------------------------------------------------------------------------
(* Claims on ShaderImportProcessor: the placeholder and the debug file     *)

\* the source given to create_shader_module by the last call
HandedOver == modules[Len(modules)].source

\* C23: load_shader_with_dsl hands over the import-expanded text with every
\* occurrence of {PLACEHOLDER}, those that imported files brought in
\* included, replaced by the one compiled rule text, and no {PLACEHOLDER}
\* is left in it; load_shader hands over the import-expanded text as it is.
C23_PlaceholderReplaced ==
    load_result = "Ok" =>
        IF load_call[1] = "load_shader_with_dsl"
        THEN /\ HandedOver =
                    Joined(SpliceInto(<<[text |-> shader_contents, own |-> TRUE]>>,
                                      "{PLACEHOLDER}", Statement_to_shader(stmt)))
             /\ ~Contains(HandedOver, "{PLACEHOLDER}")
             /\ Len(HandedOver) = Len(shader_contents)
                    + Len(MatchesFrom(shader_contents, "{PLACEHOLDER}", 1))
                        * (Len(Statement_to_shader(stmt)) - Len("{PLACEHOLDER}"))
        ELSE HandedOver = shader_contents

C23_Witness ==
    /\ load_result = "Ok"
    /\ load_call = <<"load_shader_with_dsl", "game_of_life.wgsl">>
    /\ ruleset
    /\ Len(reads) = 3
    /\ Occurrences(files[RootFile("game_of_life.wgsl")], "{PLACEHOLDER}") = 2
    /\ Occurrences(shader_contents, "{PLACEHOLDER}") = 3
    /\ Occurrences(HandedOver, "if (") = 3

\* C24 as stated: with the debug flag set, every load that went through,
\* with or without a rule statement, has left the text it handed over in
\* the debug file beside its template.
C24_EveryLoadDumps ==
    (env_debug /\ load_result = "Ok") =>
        /\ DebugPath(load_call[2]) \in DOMAIN files
        /\ files[DebugPath(load_call[2])] = HandedOver

\* C24, amended: load_shader_with_dsl alone writes a debug file.  With the
\* flag set, a call of it whose imports resolved writes the text to
\* <asset_root>/<shader_path>.debug.wgsl before it creates the shader
\* module, the text written being the text handed over; when the write
\* fails the process panics and no module is created.  load_shader writes
\* no file, flag or no flag, and with the flag not set no call writes one.
C24_DslLoadDumps ==
    [][ CallStep =>
          /\ (env_debug /\ load_call'[1] = "load_shader_with_dsl" /\ load_result' = "Ok") =>
                /\ fs_writable
                /\ files' = Written(files, DebugPath(load_call'[2]),
                                    modules'[Len(modules')].source)
          /\ ( /\ env_debug
               /\ ~fs_writable
               /\ load_call'[1] = "load_shader_with_dsl"
               /\ load_shader_inner(files, load_call'[2]).kind = "Ok" ) =>
                /\ proc' = "panicked"
                /\ modules' = modules
                /\ files' = files
          /\ (~env_debug \/ load_call'[1] = "load_shader") => files' = files ]_vars

C24_Witness ==
    /\ env_debug
    /\ load_result = "Ok"
    /\ load_call = <<"load_shader_with_dsl", "game_of_life.wgsl">>
    /\ Len(modules) = 1
    /\ Contains(shader_contents, "{PLACEHOLDER}")
    /\ DebugPath("game_of_life.wgsl") \in DOMAIN files
    /\ files[DebugPath("game_of_life.wgsl")] = HandedOver
    /\ files[DebugPath("game_of_life.wgsl")] # shader_contents

\* load_shader went through with the flag set, and no debug file exists
C24_PlainLoadNoDump ==
    /\ env_debug
    /\ load_result = "Ok"
    /\ load_call[1] = "load_shader"
    /\ DebugPath(load_call[2]) \notin DOMAIN files

-----------------------------------------------------------------------------
(* ScanSpec: get_imports_from_str is called on a text                      *)

\* bound on the number of lines of the text
MaxLines == 3

\* lines tried, each with what the scanner is to make of it: raw is the
\* line as written, text the line as str::lines() gives it, kind is
\* "import", "path" or "none", arg the target or path recorded
LineSamples ==
    { [raw |-> "#import a.wgsl", text |-> "#import a.wgsl",
       kind |-> "import", arg |-> "a.wgsl"],
      [raw |-> "  #import b.wgsl", text |-> "  #import b.wgsl",
       kind |-> "import", arg |-> "b.wgsl"],
      [raw |-> "\t# import  a.wgsl", text |-> "\t# import  a.wgsl",
       kind |-> "import", arg |-> "a.wgsl"],
      [raw |-> "#import e.wgsl\r", text |-> "#import e.wgsl",
       kind |-> "import", arg |-> "e.wgsl"],
      [raw |-> "#define_import_path lib", text |-> "#define_import_path lib",
       kind |-> "path", arg |-> "lib"],
      [raw |-> " # define_import_path  x", text |-> " # define_import_path  x",
       kind |-> "path", arg |-> "x"],
      [raw |-> "fn f() {}", text |-> "fn f() {}", kind |-> "none", arg |-> ""],
      [raw |-> "var x; #import c.wgsl", text |-> "var x; #import c.wgsl",
       kind |-> "none", arg |-> ""],
      [raw |-> "// #define_import_path y", text |-> "// #define_import_path y",
       kind |-> "none", arg |-> ""],
      [raw |-> "#importa.wgsl", text |-> "#importa.wgsl", kind |-> "none", arg |-> ""],
      [raw |-> "#import", text |-> "#import", kind |-> "none", arg |-> ""],
      [raw |-> "#import #define_import_path z", text |-> "#import #define_import_path z",
       kind |-> "import", arg |-> "#define_import_path z"],
      [raw |-> "#define_import_path #import d.wgsl",
       text |-> "#define_import_path #import d.wgsl",
       kind |-> "path", arg |-> "#import d.wgsl"],
      [raw |-> "", text |-> "", kind |-> "none", arg |-> ""] }

\* the texts of at most n of these lines, each ended by "\n"
RECURSIVE ScanTexts(_)
ScanTexts(n) ==
    IF n = 0 THEN {""}
    ELSE LET shorter == ScanTexts(n - 1)
         IN  shorter \cup {t \o l.raw \o "\n" : t \in shorter, l \in LineSamples}

ScanInit ==
    /\ scan_shader \in ScanTexts(MaxLines)
    /\ scan_imports = <<>>
    /\ pc = "scan"
    /\ ExprIdle
    /\ StmtIdle
    /\ LoadIdle
    /\ WalkIdle
    /\ TimeIdle
    /\ RunIdle
    /\ AppIdle

\* self.get_imports_from_str(&shader_contents)
Scan ==
    /\ pc = "scan"
    /\ scan_imports = <<>>
    /\ scan_imports' = <<get_imports_from_str(scan_shader)>>
    /\ UNCHANGED <<scan_shader, scanOthers, pc>>

ScanNext == Scan

ScanSpec == ScanInit /\ [][ScanNext]_vars

-----------------------------------------------------------------------------
(* Claims on get_imports_from_str                                          *)

\* the sample a line of the text was taken from
SampleOf(line) == CHOOSE l \in LineSamples : l.text = line

\* the args of the lines of the given kind, in the order of the lines
RECURSIVE ArgsOf(_, _)
ArgsOf(lines, kind) ==
    IF lines = <<>> THEN <<>>
    ELSE (IF SampleOf(Head(lines)).kind = kind THEN <<SampleOf(Head(lines)).arg>> ELSE <<>>)
            \o ArgsOf(Tail(lines), kind)

\* C25: the imports returned are the targets of the import lines, one
\* entry per import line, in the order of the lines, a target imported twice
\* listed twice; the import path is None when the text has no
\* define_import_path line, and the path of the last such line otherwise.
C25_OrderedImportsLastPath ==
    scan_imports # <<>> =>
        LET targets == ArgsOf(Lines(scan_shader), "import")
            paths == ArgsOf(Lines(scan_shader), "path")
        IN  /\ scan_imports[1].imports = targets
            /\ scan_imports[1].import_path =
                  IF paths = <<>> THEN <<>> ELSE <<paths[Len(paths)]>>

C25_Witness ==
    /\ scan_imports # <<>>
    /\ scan_imports[1].imports = <<"a.wgsl", "b.wgsl", "a.wgsl">>

\* two define_import_path lines were scanned, and the last one counts
C25_LastPath ==
    /\ scan_imports # <<>>
    /\ scan_imports[1] = [imports |-> <<"a.wgsl">>, import_path |-> <<"x">>]
    /\ StartsWith(scan_shader, "#import a.wgsl\n#define_import_path lib\n")

\* C26: each line of the text is scanned by itself, whatever stands around
\* it.  A line that is "#import <target>" after optional whitespace
\* records its target as an import and no path; a line that is
\* "#define_import_path <path>" records its path and no import; every other
\* line, a line with a directive that does not start the line included,
\* records nothing; and the text as a whole records what its lines record.
C26_LineByLine ==
    scan_imports # <<>> =>
        LET lines == Lines(scan_shader)
            alone == [k \in 1..Len(lines) |-> get_imports_from_str(lines[k] \o "\n")]
        IN  /\ \A k \in 1..Len(lines) :
                  /\ alone[k].imports =
                        IF SampleOf(lines[k]).kind = "import"
                        THEN <<SampleOf(lines[k]).arg>> ELSE <<>>
                  /\ alone[k].import_path =
                        IF SampleOf(lines[k]).kind = "path"
                        THEN <<SampleOf(lines[k]).arg>> ELSE <<>>
                  /\ alone[k].imports = <<>> \/ alone[k].import_path = <<>>
            /\ Len(scan_imports[1].imports) =
                  Cardinality({k \in 1..Len(lines) : alone[k].imports # <<>>})
            /\ (scan_imports[1].import_path # <<>>)
                  <=> (\E k \in 1..Len(lines) : alone[k].import_path # <<>>)

C26_Witness ==
    /\ scan_imports # <<>>
    /\ scan_shader = "var x; #import c.wgsl\n#import #define_import_path z\nfn f() {}\n"
    /\ scan_imports[1] = [imports |-> <<"#define_import_path z">>, import_path |-> <<>>]

-----------------------------------------------------------------------------
(* Claims on ShaderImportProcessor: import lines with other spacing        *)

\* line is an import line the scanner records, written with whitespace
\* between "#" and "import" or with more than one whitespace character
\* before the target
NonCanonical(line) ==
    /\ import_custom_path_regex(line) # ""
    /\ LET hash == SkipSpace(line, 1)
           word == SkipSpace(line, hash + 1)
           after == word + Len("import")
       IN  \/ word > hash + 1
           \/ SkipSpace(line, after) > after + 1

C27_UnreadableFatal ==
    /\ proc = "exited"
    /\ files[RootFile(load_call[2])] = "# import common.wgsl\n"
    /\ reads = <<"assets/game_of_life.wgsl", "assets/common.wgsl">>

-----------------------------------------------------------------------------
(* Claims on DiamondContext::resize                                        *)

\* the step delivers a window event that calls ctx.resize
ResizeStep ==
    /\ delivered' = delivered + 1
    /\ event'.kind \in {"Resized", "ScaleFactorChanged"}

\* C29: the stored size, the stored configuration and the configuration the
\* surface was last given agree and have no zero dimension, from the
\* creation of the context on and after every resize; a resize to a size
\* with width 0 or height 0 changes none of them and does not configure the
\* surface, and any other resize stores the new size and configures the
\* surface once.
C29_SizeAndConfigAgree ==
    /\ [](/\ ctx.size = ctx.config
          /\ ctx.config = surface.config
          /\ ctx.size[1] > 0
          /\ ctx.size[2] > 0)
    /\ [][ ResizeStep =>
             IF event'.size[1] = 0 \/ event'.size[2] = 0
             THEN ctx' = ctx /\ surface' = surface
             ELSE /\ ctx'.size = event'.size
                  /\ surface'.configures = surface.configures + 1 ]_vars

C29_Witness ==
    /\ event.kind = "Resized"
    /\ event.size = <<800, 0>>
    /\ ctx.size = <<1024, 768>>
    /\ surface = [config |-> <<1024, 768>>, configures |-> 3]

-----------------------------------------------------------------------------
(* GameOfLifeApp (crates/game_of_life_sim/src/lib.rs): input and update    *)
(*                                                                         *)
(* A Vec2 is a pair <<x, y>> of integers and an Instant a number of ticks  *)
(* of 10 ms.  The fields of the app that neither the simulation step nor   *)
(* the drawing reads (dt_sum, num_dts, camera, the pipelines) are left out.*)

\* bound on the Instants the app ever sees; a simulation step needs two
\* ticks, which bounds app.count too
MaxTicks == 6

SIM_SIZE == 1024

\* FPS_60 = 16.0 / 1000.0 seconds, in milliseconds
FPS_60 == 16

\* milliseconds in a tick
TickMillis == 10

\* window().inner_size() values tried
AppSizes == {<<1024, 1024>>, <<800, 600>>}

\* cursor positions tried
Positions == {<<0, 0>>, <<30, 40>>, <<512, 512>>}

\* the events given to handle_inputs
AppEvents ==
    [kind : {"CursorMoved"}, position : Positions]
        \cup [kind : {"MouseInput"}, button : {"Left", "Right"},
              state : {"Pressed", "Released"}]
        \cup [kind : {"Resized"}, size : AppSizes]
        \cup [kind : {"KeyboardInput", "MainEventsCleared"}]

\* GameOfLifeApp::cursor_to_canvas: <<current_canvas_pos, prev_canvas_pos>>
cursor_to_canvas(self, width, height) ==
    LET half_screen == <<width \div 2, height \div 2>>
        current_canvas_pos ==
            <<self.cursor_pos[1] - half_screen[1] + SIM_SIZE \div 2,
              self.cursor_pos[2] - half_screen[2] + SIM_SIZE \div 2>>
        prev == IF self.prev_cursor_pos = <<>> THEN current_canvas_pos
                ELSE self.prev_cursor_pos[1]
        prev_canvas_pos ==
            <<prev[1] - half_screen[1] + SIM_SIZE \div 2,
              prev[2] - half_screen[2] + SIM_SIZE \div 2>>
    IN  <<current_canvas_pos, prev_canvas_pos>>

\* a mutant of handle_inputs: any mouse button sets the drawing flag
handle_inputs_anybutton(self, ev) ==
    CASE ev.kind = "CursorMoved" -> [self EXCEPT !.cursor_pos = ev.position]
      [] ev.kind = "MouseInput" -> [self EXCEPT !.drawing = (ev.state = "Pressed")]
      [] OTHER -> self

\* handle_inputs: the app after the event
handle_inputs(self, ev) ==
    CASE ev.kind = "CursorMoved" -> [self EXCEPT !.cursor_pos = ev.position]
      [] ev.kind = "MouseInput" /\ ev.button = "Left" ->
            [self EXCEPT !.drawing = (ev.state = "Pressed")]
      [] OTHER -> self

\* init_game_of_life: the compute pass it encodes
init_game_of_life(self) ==
    [label |-> "Init", bind_group |-> self.data[1].init_bind_group]

\* draw_game_of_life: the compute pass it encodes
draw_game_of_life(self, size) ==
    LET ends == cursor_to_canvas(self, size[1], size[2])
    IN  [label |-> "draw_game_of_life", bind_group |-> self.data[1].draw_bind_group,
         draw_start |-> ends[2], draw_end |-> ends[1], draw_radius |-> 10]

\* a mutant of update_game_of_life: the two textures are never swapped
update_game_of_life_unswapped(self) ==
    [app |-> [self EXCEPT !.count = @ + 1],
     pass |-> [label |-> "Update",
               bind_group |-> <<self.data[1].canvas, self.data[1].data_in>>]]

\* update_game_of_life: the compute pass it encodes and the app after it
update_game_of_life(self) ==
    LET views == IF self.count % 2 = 0
                 THEN <<self.data[1].canvas, self.data[1].data_in>>
                 ELSE <<self.data[1].data_in, self.data[1].canvas>>
    IN  [app |-> [self EXCEPT !.count = @ + 1],
         pass |-> [label |-> "Update", bind_group |-> views]]

\* run_update takes a simulation step at instant now
Stepping(self, now) == (now - self.updated_time) * TickMillis > FPS_60

\* run_update: the app after it and the passes of the encoder it submits
run_update(self, now, size) ==
    LET timed == [self EXCEPT !.time = now]
        stepped == IF Stepping(self, now)
                   THEN [app |-> [update_game_of_life(timed).app EXCEPT
                                     !.updated_time = now],
                         passes |-> <<update_game_of_life(timed).pass>>]
                   ELSE [app |-> timed, passes |-> <<>>]
        drawn == IF stepped.app.drawing
                 THEN Append(stepped.passes, draw_game_of_life(stepped.app, size))
                 ELSE stepped.passes
    IN  [app |-> [stepped.app EXCEPT !.prev_cursor_pos = <<stepped.app.cursor_pos>>],
         passes |-> drawn]

AppInit ==
    /\ app = GameOfLifeApp_default(0)
    /\ instant_now = 0
    /\ inner_size \in AppSizes
    /\ submitted = <<>>
    /\ steps = <<>>
    /\ left_button = "none"
    /\ pc = "boot"
    /\ ExprIdle
    /\ StmtIdle
    /\ LoadIdle
    /\ WalkIdle
    /\ TimeIdle
    /\ RunIdle
    /\ ScanIdle

\* GlassApp::start: the canvas data is created and the Init pass submitted
AppStart ==
    /\ pc = "boot"
    /\ app' = [app EXCEPT !.data = <<CanvasData_create>>]
    /\ submitted' = <<init_game_of_life(app')>>
    /\ pc' = "events"
    /\ UNCHANGED <<instant_now, inner_size, steps, left_button, appOthers>>

\* time passes
AppTick ==
    /\ pc = "events"
    /\ instant_now < MaxTicks
    /\ instant_now' = instant_now + 1
    /\ UNCHANGED <<app, inner_size, submitted, steps, left_button, pc, appOthers>>

\* GlassApp::input: handle_inputs on an event
Input ==
    /\ pc = "events"
    /\ \E ev \in AppEvents :
          /\ app' = handle_inputs(app, ev)
          /\ inner_size' = IF ev.kind = "Resized" THEN ev.size ELSE inner_size
          /\ left_button' = IF ev.kind = "MouseInput" /\ ev.button = "Left"
                            THEN ev.state ELSE left_button
    /\ UNCHANGED <<instant_now, submitted, steps, pc, appOthers>>

\* GlassApp::update: run_update
RunUpdate ==
    /\ pc = "events"
    /\ app' = run_update(app, instant_now, inner_size).app
    /\ submitted' = run_update(app, instant_now, inner_size).passes
    /\ steps' = steps \o SelectSeq(submitted', LAMBDA p : p.label = "Update")
    /\ UNCHANGED <<instant_now, inner_size, left_button, pc, appOthers>>

AppNext ==
    \/ AppStart
    \/ AppTick
    \/ Input
    \/ RunUpdate

AppSpec == AppInit /\ [][AppNext]_vars

-----------------------------------------------------------------------------
(* Claims on GameOfLifeApp                                                *)

\* C28: count starts at 0 and equals the number of simulation steps
\* dispatched; a step dispatched at an even count binds the canvas texture
\* at 0 and the data_in texture at 1, a step at an odd count binds them the
\* other way round, so that steps that follow each other use opposite
\* assignments and no step binds one texture twice.
C28_PingPong ==
    /\ app.count = Len(steps)
    /\ \A i \in 1..Len(steps) :
          /\ steps[i].bind_group =
                IF (i - 1) % 2 = 0 THEN <<"Canvas", "Data In">>
                ELSE <<"Data In", "Canvas">>
          /\ steps[i].bind_group[1] # steps[i].bind_group[2]
          /\ i > 1 => /\ steps[i].bind_group[1] = steps[i - 1].bind_group[2]
                      /\ steps[i].bind_group[2] = steps[i - 1].bind_group[1]

C28_Witness ==
    /\ app.count = 3
    /\ Len(steps) = 3
    /\ submitted # <<>>
    /\ submitted[1] = [label |-> "Update", bind_group |-> <<"Canvas", "Data In">>]
    /\ steps[2].bind_group = <<"Data In", "Canvas">>

\* the draw pass among passes, <<>> when there is none
DrawPasses(passes) == SelectSeq(passes, LAMBDA p : p.label = "draw_game_of_life")

\* where canvas position of a cursor position pos lies for a window of size
ToCanvas(pos, size) ==
    <<pos[1] - size[1] \div 2 + SIM_SIZE \div 2, pos[2] - size[2] \div 2 + SIM_SIZE \div 2>>

\* C30: the drawing flag tells whether the last left-button event was a
\* press, and is false before any; a run_update encodes one draw pass when
\* the flag is set and none when it is not, and leaves prev_cursor_pos at
\* the cursor position, which it does not move; the stroke of a draw pass
\* runs from the cursor position the run_update before left behind to the
\* cursor position now.
C30_DrawingFollowsButton ==
    /\ [](app.drawing = (left_button = "Pressed"))
    /\ [][ RunUpdate =>
             /\ Len(DrawPasses(submitted')) = IF app.drawing THEN 1 ELSE 0
             /\ app'.prev_cursor_pos = <<app.cursor_pos>>
             /\ app'.cursor_pos = app.cursor_pos
             /\ app'.drawing = app.drawing
             /\ (app.drawing /\ app.prev_cursor_pos # <<>>) =>
                   /\ DrawPasses(submitted')[1].draw_start =
                         ToCanvas(app.prev_cursor_pos[1], inner_size)
                   /\ DrawPasses(submitted')[1].draw_end =
                         ToCanvas(app.cursor_pos, inner_size) ]_vars

C30_Witness ==
    /\ app.drawing
    /\ left_button = "Pressed"
    /\ app.cursor_pos = <<30, 40>>
    /\ app.prev_cursor_pos = <<<<30, 40>>>>
    /\ Len(submitted) = 2
    /\ submitted[2].label = "draw_game_of_life"
    /\ submitted[2].draw_start = <<512, 512>>
    /\ submitted[2].draw_end = <<30, 40>>

====
